---------------------------- MODULE Spec2Model ----------------------------
(***************************************************************************)
(* FinMate: the receipt field extractor (utils/formatter.py) and the       *)
(* transaction category classifiers (backend/app/services/ai_service.py,   *)
(* src/expense_tracker.py), modelled as state machines over bounded        *)
(* inputs.  Texts are TLA+ strings; a character is a string of length 1.   *)
(***************************************************************************)
EXTENDS Integers, Sequences, FiniteSets, TLC

VARIABLES
    text,        \* the argument of extract_amount / extract_date
    amount,      \* what extract_amount(text) returned (or NotRun)
    date,        \* what extract_date(text) returned (or NotRun)
    description, \* the argument of the category classifiers
    txAmount,    \* the amount argument of ExpenseTracker.predict_category
    OPENAI_API_KEY, \* settings.OPENAI_API_KEY ("" when the credentials are missing)
    aiCalls,     \* number of calls made to openai.ChatCompletion.acreate
    aiOutcome,   \* how the last call to the AI service ended
    aiContent,   \* the message content the AI service answered with
    label,       \* the label the last classifier call returned
    confidence,  \* the confidence categorize_transaction returned, in tenths
    classifier,  \* which classifier produced label (or "none")
    raised,      \* the exception that reached the caller ("" when none did)
    pc,          \* where extract_receipt_data is in its body
    ocr,         \* what pytesseract.image_to_string did for the image
    raw_text,    \* the local raw_text of extract_receipt_data
    vendor,      \* the local vendor of extract_receipt_data
    predicted,   \* the local category of extract_receipt_data
    stages,      \* the stages extract_receipt_data has run, in order
    records,     \* the records extract_receipt_data has returned, in order
    old_value,   \* the first argument of calculate_percentage_change
    new_value,   \* the second argument of calculate_percentage_change
    change,      \* what calculate_percentage_change returned (or NotRun)
    users,       \* the rows of the users table
    register_data, \* the body of the last POST /auth/register
    response,    \* the response to the last POST /auth/register
    session,     \* st.session_state of one browser session, key by key
    supabase,    \* AuthManager.supabase: the database client, or None
    matched,     \* the user record of the last successful authenticate_user
    lastOp,      \* the last operation on the session
    rendered,    \* what the last run of the script put on the page
    sqlite_transactions, \* the rows of the transactions table of data/database.db
    scan,        \* the last run of the receipt scanner page
    request,     \* the last call made to the backend API
    reply,       \* the answer to the last call made to the backend API
    transactions,  \* the rows of the backend transactions table
    subscriptions, \* the rows of the backend subscriptions table
    progress,    \* the rows of the backend user_course_progress table
    signup,      \* which sign-up function the two requests are running
    unique,      \* whether the users table refuses a second row with the identifier
    signupPc,    \* where each sign-up request is in its function
    signupSaw,   \* what the existence check of each request found
    signupResult, \* what each sign-up request reported
    signupUsers  \* the rows of the users table the requests work on

vars == <<text, amount, date, description, txAmount, OPENAI_API_KEY, aiCalls,
          aiOutcome, aiContent, label, confidence, classifier, raised, pc,
          ocr, raw_text, vendor, predicted, stages, records, old_value,
          new_value, change, users, register_data, response, session,
          supabase, matched, lastOp, rendered, sqlite_transactions, scan,
          request, reply, transactions, subscriptions, progress, signup,
          unique, signupPc, signupSaw, signupResult, signupUsers>>

extractVars == <<text, amount, date>>
classifyVars == <<description, txAmount, OPENAI_API_KEY, aiCalls, aiOutcome,
                  aiContent, label, confidence, classifier>>
receiptVars == <<pc, ocr, raw_text, vendor, predicted, stages, records>>
percentVars == <<old_value, new_value, change>>
registerVars == <<users, register_data, response>>
sessionVars == <<session, supabase, matched, lastOp, rendered>>
scannerVars == <<sqlite_transactions, scan>>
apiVars == <<request, reply, transactions, subscriptions, progress>>
signupVars == <<signup, unique, signupPc, signupSaw, signupResult, signupUsers>>
appVars == <<sessionVars, scannerVars, apiVars, signupVars>>
coreVars == <<extractVars, classifyVars, raised, receiptVars, percentVars,
              registerVars>>

----------------------------------------------------------------------------
(* Characters and strings                                                  *)

Digits == {"0", "1", "2", "3", "4", "5", "6", "7", "8", "9"}

LowerLetters ==
    {"a", "b", "c", "d", "e", "f", "g", "h", "i", "j", "k", "l", "m",
     "n", "o", "p", "q", "r", "s", "t", "u", "v", "w", "x", "y", "z"}

UpperLetters ==
    {"A", "B", "C", "D", "E", "F", "G", "H", "I", "J", "K", "L", "M",
     "N", "O", "P", "Q", "R", "S", "T", "U", "V", "W", "X", "Y", "Z"}

\* The character at 1-based index i of s, "" outside the string.
Ch(s, i) == IF 1 <= i /\ i <= Len(s) THEN SubSeq(s, i, i) ELSE ""

\* regex \d
IsDigit(c) == c \in Digits

\* regex \s
IsSpace(c) == c \in {" ", "\t", "\n", "\r", "\f"}

\* regex \w
IsWord(c) == c \in Digits \/ c \in LowerLetters \/ c \in UpperLetters \/ c = "_"

\* regex \b before index i: exactly one of the characters i-1, i is a word
\* character (the outside of the string counts as a non-word character).
WordBoundary(s, i) == IsWord(Ch(s, i - 1)) # IsWord(Ch(s, i))

DigitVal(c) ==
    CASE c = "0" -> 0 [] c = "1" -> 1 [] c = "2" -> 2 [] c = "3" -> 3
      [] c = "4" -> 4 [] c = "5" -> 5 [] c = "6" -> 6 [] c = "7" -> 7
      [] c = "8" -> 8 [] c = "9" -> 9

\* s has p as a substring starting at index i.
StartsWith(s, i, p) ==
    /\ i >= 1
    /\ i + Len(p) - 1 <= Len(s)
    /\ SubSeq(s, i, i + Len(p) - 1) = p

\* The number of consecutive digits of s from index i on, at most max.
RECURSIVE DigitRun(_, _, _)
DigitRun(s, i, max) ==
    IF max > 0 /\ IsDigit(Ch(s, i)) THEN 1 + DigitRun(s, i + 1, max - 1) ELSE 0

\* The first index among cands (in order) that holds a digit of s, or 0.
RECURSIVE FirstDigitAt(_, _)
FirstDigitAt(s, cands) ==
    IF cands = <<>> THEN 0
    ELSE IF IsDigit(Ch(s, Head(cands))) THEN Head(cands)
    ELSE FirstDigitAt(s, Tail(cands))

----------------------------------------------------------------------------
(* extract_amount: the regular expression                                  *)
(*   (?:<rupee>|Rs\.?|INR)?\s?(\d{1,3}(?:,\d{3})*(?:\.\d{1,2})?)           *)

\* The source file holds the rupee sign as the three characters U+00E2
\* U+201A U+00B9 (a letter, a punctuation mark, a superscript digit that is
\* \w but not \d).  TLA+ strings are ASCII: three ASCII characters of the same
\* classes stand for them.
RupeeMark == "a~i"

\* (?:<rupee>|Rs\.?|INR)? : the indexes at which the rest of the pattern may
\* resume after the optional currency marker at i, in the order the regex
\* engine tries them (alternatives left to right, both optional parts greedy,
\* the empty match last).
CurrencyEnds(t, i) ==
    (IF StartsWith(t, i, RupeeMark) THEN <<i + 3>> ELSE <<>>)
    \o (IF StartsWith(t, i, "Rs")
        THEN (IF Ch(t, i + 2) = "." THEN <<i + 3>> ELSE <<>>) \o <<i + 2>>
        ELSE <<>>)
    \o (IF StartsWith(t, i, "INR") THEN <<i + 3>> ELSE <<>>)
    \o <<i>>

\* \s? at j: one whitespace character first, none second.
SpaceEnds(t, j) == IF IsSpace(Ch(t, j)) THEN <<j + 1, j>> ELSE <<j>>

\* The indexes at which the captured number may start for a match that starts
\* at i, in the engine's order.
RECURSIVE NumberStarts(_, _)
NumberStarts(t, ends) ==
    IF ends = <<>> THEN <<>>
    ELSE SpaceEnds(t, Head(ends)) \o NumberStarts(t, Tail(ends))

\* (?:,\d{3})* from index k: the index after the last group taken.
RECURSIVE GroupsEnd(_, _)
GroupsEnd(t, k) ==
    IF Ch(t, k) = "," /\ DigitRun(t, k + 1, 3) = 3
    THEN GroupsEnd(t, k + 4)
    ELSE k

\* (?:\.\d{1,2})? from index k.
FractionEnd(t, k) ==
    IF Ch(t, k) = "." /\ DigitRun(t, k + 1, 2) >= 1
    THEN k + 1 + DigitRun(t, k + 1, 2)
    ELSE k

\* \d{1,3}(?:,\d{3})*(?:\.\d{1,2})? from index k (a digit): the index after
\* the number.  Every quantifier is greedy and nothing follows the group, so
\* the engine never gives a character back.
NumberEnd(t, k) == FractionEnd(t, GroupsEnd(t, k + DigitRun(t, k, 3)))

NoMatch == [from |-> 0, to |-> 0]

\* The match of the amount pattern that starts at index i: the span of its
\* captured group (from .. to, inclusive), or NoMatch.
AmountMatchAt(t, i) ==
    LET k == FirstDigitAt(t, NumberStarts(t, CurrencyEnds(t, i)))
    IN  IF k = 0 THEN NoMatch ELSE [from |-> k, to |-> NumberEnd(t, k) - 1]

\* re.findall: the captured groups of the non-overlapping matches, scanning
\* from index pos, leftmost match first, each search resuming where the
\* previous match ended.
RECURSIVE AmountSpans(_, _)
AmountSpans(t, pos) ==
    IF pos > Len(t) THEN <<>>
    ELSE LET m == AmountMatchAt(t, pos)
         IN  IF m = NoMatch THEN AmountSpans(t, pos + 1)
             ELSE <<m>> \o AmountSpans(t, m.to + 1)

AmountMatches(t) ==
    LET spans == AmountSpans(t, 1)
    IN  [n \in 1..Len(spans) |-> SubSeq(t, spans[n].from, spans[n].to)]

----------------------------------------------------------------------------
(* str.replace(',', '') and float()                                        *)

RECURSIVE RemoveCommas(_)
RemoveCommas(s) ==
    IF s = "" THEN ""
    ELSE IF Ch(s, 1) = "," THEN RemoveCommas(SubSeq(s, 2, Len(s)))
    ELSE Ch(s, 1) \o RemoveCommas(SubSeq(s, 2, Len(s)))

\* The value of a string of digits.
RECURSIVE DigitsValue(_)
DigitsValue(s) ==
    IF s = "" THEN 0
    ELSE 10 * DigitsValue(SubSeq(s, 1, Len(s) - 1)) + DigitVal(Ch(s, Len(s)))

RECURSIVE Pow10(_)
Pow10(n) == IF n = 0 THEN 1 ELSE 10 * Pow10(n - 1)

\* A float is kept as the exact decimal num / den, den a power of ten, with no
\* trailing zero in the fraction (15.00 and 15.0 are the same float).
RECURSIVE Normalise(_, _)
Normalise(num, den) ==
    IF den > 1 /\ num % 10 = 0 THEN Normalise(num \div 10, den \div 10)
    ELSE [tag |-> "float", num |-> num, den |-> den]

ValueError == [tag |-> "ValueError", num |-> 0, den |-> 1]
NotRunAmount == [tag |-> "NotRun", num |-> 0, den |-> 1]
Zero == [tag |-> "float", num |-> 0, den |-> 1]

\* float(s) for a string of digits, '.' and ',': digits with at most one '.'
\* and at least one digit parse; anything else raises ValueError.
float(s) ==
    LET dots == {i \in 1..Len(s) : Ch(s, i) = "."}
        bad == {i \in 1..Len(s) : ~IsDigit(Ch(s, i)) /\ Ch(s, i) # "."}
        dot == IF dots = {} THEN Len(s) + 1 ELSE CHOOSE i \in dots : TRUE
        int == SubSeq(s, 1, dot - 1)
        frac == SubSeq(s, dot + 1, Len(s))
    IN  IF bad # {} \/ Cardinality(dots) > 1 \/ Len(int) + Len(frac) = 0
        THEN ValueError
        ELSE Normalise(DigitsValue(int \o frac), Pow10(Len(frac)))

----------------------------------------------------------------------------
(* extract_amount                                                          *)

\* extract_amount without .replace(',', ''): float() is given the commas.
extract_amount_keep_commas(t) ==
    LET matches == AmountMatches(t)
    IN  IF matches # <<>> THEN float(matches[Len(matches)]) ELSE Zero

\* extract_amount returning matches[0] instead of matches[-1].
extract_amount_first_match(t) ==
    LET matches == AmountMatches(t)
    IN  IF matches # <<>> THEN float(RemoveCommas(matches[1])) ELSE Zero

\* extract_amount without the `if matches` test: matches[-1] of an empty list
\* raises IndexError.
extract_amount_no_default(t) ==
    LET matches == AmountMatches(t)
    IN  IF matches # <<>> THEN float(RemoveCommas(matches[Len(matches)]))
        ELSE [tag |-> "IndexError", num |-> 0, den |-> 1]

extract_amount(t) ==
    LET matches == AmountMatches(t)
    IN  IF matches # <<>>
        THEN float(RemoveCommas(matches[Len(matches)]))
        ELSE Zero

----------------------------------------------------------------------------
(* extract_date: the regular expression \b\d{1,2}[/-]\d{1,2}[/-]\d{2,4}\b  *)

IsDateSep(c) == c \in {"/", "-"}

\* The digit counts <<day, month, year>> of the three \d{m,n}, in the order
\* the greedy quantifiers make the engine try them.
DateShapes ==
    << <<2, 2, 4>>, <<2, 2, 3>>, <<2, 2, 2>>, <<2, 1, 4>>, <<2, 1, 3>>,
       <<2, 1, 2>>, <<1, 2, 4>>, <<1, 2, 3>>, <<1, 2, 2>>, <<1, 1, 4>>,
       <<1, 1, 3>>, <<1, 1, 2>> >>

\* The date pattern matches at index i with the digit counts of shape.
DateShapeFits(t, i, shape) ==
    LET m == i + shape[1] + 1
        y == m + shape[2] + 1
        e == y + shape[3]
    IN  /\ WordBoundary(t, i)
        /\ DigitRun(t, i, shape[1]) = shape[1]
        /\ IsDateSep(Ch(t, m - 1))
        /\ DigitRun(t, m, shape[2]) = shape[2]
        /\ IsDateSep(Ch(t, y - 1))
        /\ DigitRun(t, y, shape[3]) = shape[3]
        /\ WordBoundary(t, e)

RECURSIVE FirstDateShape(_, _, _)
FirstDateShape(t, i, shapes) ==
    IF shapes = <<>> THEN <<>>
    ELSE IF DateShapeFits(t, i, Head(shapes)) THEN Head(shapes)
    ELSE FirstDateShape(t, i, Tail(shapes))

\* The match of the date pattern that starts at index i, or NoMatch.  (Every
\* shape needs \b and a digit at i: without them no shape is tried.)
DateMatchAt(t, i) ==
    IF ~(IsDigit(Ch(t, i)) /\ WordBoundary(t, i)) THEN NoMatch
    ELSE LET shape == FirstDateShape(t, i, DateShapes)
         IN  IF shape = <<>> THEN NoMatch
             ELSE [from |-> i, to |-> i + shape[1] + shape[2] + shape[3] + 1]

\* re.findall for the date pattern (no group: the whole match).
RECURSIVE DateSpans(_, _)
DateSpans(t, pos) ==
    IF pos > Len(t) THEN <<>>
    ELSE LET m == DateMatchAt(t, pos)
         IN  IF m = NoMatch THEN DateSpans(t, pos + 1)
             ELSE <<m>> \o DateSpans(t, m.to + 1)

DateMatches(t) ==
    LET spans == DateSpans(t, 1)
    IN  [n \in 1..Len(spans) |-> SubSeq(t, spans[n].from, spans[n].to)]

----------------------------------------------------------------------------
(* datetime.strptime(date_str, fmt).date()                                 *)

NonZeroDigits == Digits \ {"0"}

\* The indexes after a match of one format directive at index i of s, in the
\* order of the alternatives of the directive:
\*   %d  3[0-1]|[1-2]\d|0[1-9]|[1-9]| [1-9]      %m  1[0-2]|0[1-9]|[1-9]
\*   %Y  \d\d\d\d                                %y  \d\d
DirectiveEnds(s, i, dir) ==
    LET a == Ch(s, i)
        b == Ch(s, i + 1)
    IN  CASE dir = "d" ->
               (IF a = "3" /\ b \in {"0", "1"} THEN <<i + 2>> ELSE <<>>)
               \o (IF a \in {"1", "2"} /\ IsDigit(b) THEN <<i + 2>> ELSE <<>>)
               \o (IF a = "0" /\ b \in NonZeroDigits THEN <<i + 2>> ELSE <<>>)
               \o (IF a \in NonZeroDigits THEN <<i + 1>> ELSE <<>>)
               \o (IF a = " " /\ b \in NonZeroDigits THEN <<i + 2>> ELSE <<>>)
          [] dir = "m" ->
               (IF a = "1" /\ b \in {"0", "1", "2"} THEN <<i + 2>> ELSE <<>>)
               \o (IF a = "0" /\ b \in NonZeroDigits THEN <<i + 2>> ELSE <<>>)
               \o (IF a \in NonZeroDigits THEN <<i + 1>> ELSE <<>>)
          [] dir = "Y" -> IF DigitRun(s, i, 4) = 4 THEN <<i + 4>> ELSE <<>>
          [] dir = "y" -> IF DigitRun(s, i, 2) = 2 THEN <<i + 2>> ELSE <<>>

\* The third directive (the year) from index i: the field ends <<e1, e2, e3>>
\* of the first match, or <<>>.
YearMatch(s, e1, e2, i, dir) ==
    LET ends == DirectiveEnds(s, i, dir)
    IN  IF ends = <<>> THEN <<>> ELSE <<e1, e2, Head(ends)>>

\* The second directive from index i, trying its alternatives in order until
\* the rest of the format matches.
RECURSIVE SecondMatch(_, _, _, _)
SecondMatch(s, fmt, e1, ends) ==
    IF ends = <<>> THEN <<>>
    ELSE LET e2 == Head(ends)
             rest == IF Ch(s, e2) = Ch(fmt, 6)
                     THEN YearMatch(s, e1, e2, e2 + 1, Ch(fmt, 8))
                     ELSE <<>>
         IN  IF rest # <<>> THEN rest ELSE SecondMatch(s, fmt, e1, Tail(ends))

\* The first directive, likewise.
RECURSIVE FirstMatch(_, _, _)
FirstMatch(s, fmt, ends) ==
    IF ends = <<>> THEN <<>>
    ELSE LET e1 == Head(ends)
             rest == IF Ch(s, e1) = Ch(fmt, 3)
                     THEN SecondMatch(s, fmt, e1,
                                      DirectiveEnds(s, e1 + 1, Ch(fmt, 5)))
                     ELSE <<>>
         IN  IF rest # <<>> THEN rest ELSE FirstMatch(s, fmt, Tail(ends))

\* int() of a matched field: its digits (a leading blank is skipped).
RECURSIVE FieldValue(_)
FieldValue(s) ==
    IF s = "" THEN 0
    ELSE IF IsDigit(Ch(s, Len(s)))
    THEN 10 * FieldValue(SubSeq(s, 1, Len(s) - 1)) + DigitVal(Ch(s, Len(s)))
    ELSE FieldValue(SubSeq(s, 1, Len(s) - 1))

IsLeap(y) == y % 4 = 0 /\ (y % 100 # 0 \/ y % 400 = 0)

DaysInMonth(y, m) ==
    IF m = 2 THEN (IF IsLeap(y) THEN 29 ELSE 28)
    ELSE IF m \in {4, 6, 9, 11} THEN 30
    ELSE 31

None == [tag |-> "None", y |-> 0, m |-> 0, d |-> 0]
NotRunDate == [tag |-> "NotRun", y |-> 0, m |-> 0, d |-> 0]
DateError == [tag |-> "ValueError", y |-> 0, m |-> 0, d |-> 0]

\* datetime.date(y, m, d): ValueError outside the calendar (years 1..9999).
MakeDate(y, m, d) ==
    IF /\ 1 <= y /\ y <= 9999
       /\ 1 <= m /\ m <= 12
       /\ 1 <= d /\ d <= DaysInMonth(y, m)
    THEN [tag |-> "date", y |-> y, m |-> m, d |-> d]
    ELSE DateError

\* A two-digit year: 69..99 are 1969..1999, 0..68 are 2000..2068.
CenturyOf(yy) == IF yy <= 68 THEN 2000 + yy ELSE 1900 + yy

\* strptime for the formats "%a/%b/%c" and "%a-%b-%c" of this program: the
\* format is matched as a regular expression from the start of date_str; no
\* match, text left after the match, or a day the month does not have, raise
\* ValueError.
strptime(date_str, fmt) ==
    LET found == FirstMatch(date_str, fmt, DirectiveEnds(date_str, 1, Ch(fmt, 2)))
    IN  IF found = <<>> THEN DateError
        ELSE IF found[3] # Len(date_str) + 1 THEN DateError
        ELSE LET f1 == FieldValue(SubSeq(date_str, 1, found[1] - 1))
                 f2 == FieldValue(SubSeq(date_str, found[1] + 1, found[2] - 1))
                 f3 == FieldValue(SubSeq(date_str, found[2] + 1, found[3] - 1))
                 year == IF Ch(fmt, 8) = "y" THEN CenturyOf(f3) ELSE f3
             IN  IF Ch(fmt, 2) = "d" THEN MakeDate(year, f2, f1)
                 ELSE MakeDate(year, f1, f2)

----------------------------------------------------------------------------
(* extract_date                                                            *)

\* The formats with the month-first one tried first.
DateFormatsMonthFirst == <<"%m/%d/%Y", "%d/%m/%Y", "%d-%m-%Y", "%d/%m/%y">>

DateFormats == <<"%d/%m/%Y", "%d-%m-%Y", "%m/%d/%Y", "%d/%m/%y">>

\* for fmt in (...): try: return strptime(...) except: continue
\* The date of the first format that parses date_str; None when every format
\* raised.
RECURSIVE TryFormats(_, _)
TryFormats(date_str, fmts) ==
    IF fmts = <<>> THEN None
    ELSE LET r == strptime(date_str, Head(fmts))
         IN  IF r.tag = "date" THEN r ELSE TryFormats(date_str, Tail(fmts))

\* for date_str in matches: ...; return None
RECURSIVE TryTokens(_, _)
TryTokens(matches, n) ==
    IF n > Len(matches) THEN None
    ELSE LET r == TryFormats(matches[n], DateFormats)
         IN  IF r.tag = "date" THEN r ELSE TryTokens(matches, n + 1)

\* extract_date without the try/except: the first strptime call returns its
\* date or raises to the caller.
extract_date_uncaught(t) ==
    LET matches == DateMatches(t)
    IN  IF matches = <<>> THEN None ELSE strptime(matches[1], DateFormats[1])

\* extract_date walking the matches from the last one to the first.
RECURSIVE TryTokensReversed(_, _)
TryTokensReversed(matches, n) ==
    IF n < 1 THEN None
    ELSE LET r == TryFormats(matches[n], DateFormats)
         IN  IF r.tag = "date" THEN r ELSE TryTokensReversed(matches, n - 1)

extract_date_last_token(t) ==
    TryTokensReversed(DateMatches(t), Len(DateMatches(t)))

extract_date(t) == TryTokens(DateMatches(t), 1)


----------------------------------------------------------------------------
(* The inputs of the field extractor                                       *)

\* Pieces of receipt text; a text is a concatenation of at most MaxFrags.
Fragments ==
    {"Rs. ", "1,234.56", " ", "$5.00", "-",
     "03/04/2024", "03/15/2024", "31/02/2024"}

MaxFrags == 3

RECURSIVE TextsOf(_)
TextsOf(n) ==
    IF n = 0 THEN {""}
    ELSE LET shorter == TextsOf(n - 1)
         IN  shorter \cup {p \o f : p \in shorter, f \in Fragments}

\* Whole receipts and edge cases, among them the scenarios of the
\* specification.
ScenarioTexts ==
    {"Total: Rs. 1,234.56 on 15/03/2024",
     "Item1 $5.00 Item2 $10.00 Total $15.00",
     "Total: Rs. 1,234.56",
     "Cafe Coffee Day\nDate 31/02/2024\nPaid 03/15/2024\nTotal INR 1,250.5",
     "a~i 12,34,567.891 Rs.7 INR9",
     "due 29/02/2023 or 29/02/2024",
     "15/03-2024 then 15/03/202 then 15-03-24 then 1/1/0000 then 9/9/69",
     "00/01/2024 13/13/2024 12/13/2024 01/02/2024",
     "x15/03/2024", "1/2/24 paid", "15/03/20245",
     "no numbers here", "Thank you!\n\tVisit again"}

Texts == TextsOf(MaxFrags) \cup ScenarioTexts

----------------------------------------------------------------------------
(* The field extractor as a state machine: a text is handed once to each   *)
(* of the two extraction functions, in either order (as the receipt parser *)
(* does with the recognized text).                                         *)

\* extract_receipt_data has not been called.
OcrNotCalled == [outcome |-> "none", text |-> ""]

ReceiptIdle ==
    /\ pc = "idle"
    /\ ocr = OcrNotCalled
    /\ raw_text = ""
    /\ vendor = ""
    /\ predicted = ""
    /\ stages = <<>>
    /\ records = <<>>

\* calculate_percentage_change has not been called.
NotRunChange == [tag |-> "NotRun", num |-> 0, den |-> 1]

PercentIdle ==
    /\ old_value = 0
    /\ new_value = 0
    /\ change = NotRunChange

\* No request has been made to the backend.
NoToken == [sub |-> ""]
NoRequest == [email |-> "", username |-> ""]
NoResponse == [status |-> 0, access_token |-> NoToken, token_type |-> ""]

RegisterIdle ==
    /\ users = {}
    /\ register_data = NoRequest
    /\ response = NoResponse

\* The Streamlit session has no key and nothing has run.
Missing == "<missing>"

SessionKeys ==
    {"authenticated", "user_id", "user_name", "user_email", "user_age",
     "income_bracket", "setup_complete"}

NoUser == [id |-> "", full_name |-> "", email |-> "", password_hash |-> "",
           age |-> "", income_bracket |-> ""]

SessionIdle ==
    /\ session = [k \in SessionKeys |-> Missing]
    /\ supabase = "None"
    /\ matched = NoUser
    /\ lastOp = "none"
    /\ rendered = {}

\* The receipt scanner page has not run.
NoScan == [uploaded |-> FALSE, submitted |-> FALSE, user |-> "", vendor |-> "",
           date |-> None, amount |-> Zero, category |-> "", note |-> ""]

ScannerIdle ==
    /\ sqlite_transactions = <<>>
    /\ scan = NoScan

\* No call has been made to the backend API.
NoCall == [op |-> "none", caller |-> 0, id |-> 0, body |-> <<>>]
NoReply == [status |-> 0, items |-> {}]

\* A table with an integer primary key: its rows and the last value its
\* sequence gave out.
EmptyTable == [rows |-> {}, last_id |-> 0]

ApiIdle ==
    /\ request = NoCall
    /\ reply = NoReply
    /\ transactions = EmptyTable
    /\ subscriptions = EmptyTable
    /\ progress = EmptyTable

\* No sign-up request is running.
Requests == {1, 2}

SignupIdle ==
    /\ signup = "none"
    /\ unique = FALSE
    /\ signupPc = [r \in Requests |-> "done"]
    /\ signupSaw = [r \in Requests |-> FALSE]
    /\ signupResult = [r \in Requests |-> "none"]
    /\ signupUsers = <<>>

AppIdle == SessionIdle /\ ScannerIdle /\ ApiIdle /\ SignupIdle

ClassifierIdle ==
    /\ description = ""
    /\ txAmount = 0
    /\ OPENAI_API_KEY = ""
    /\ aiCalls = 0
    /\ aiOutcome = "none"
    /\ aiContent = ""
    /\ label = ""
    /\ confidence = 0
    /\ classifier = "none"

InitExtract ==
    /\ text \in Texts
    /\ amount = NotRunAmount
    /\ date = NotRunDate
    /\ ClassifierIdle
    /\ raised = ""
    /\ ReceiptIdle
    /\ PercentIdle
    /\ RegisterIdle
    /\ AppIdle

ExtractAmount ==
    /\ amount.tag = "NotRun"
    /\ amount' = extract_amount(text)
    /\ UNCHANGED <<text, date>>
    /\ UNCHANGED classifyVars
    /\ UNCHANGED <<raised, receiptVars, percentVars, registerVars, appVars>>

ExtractDate ==
    /\ date.tag = "NotRun"
    /\ date' = extract_date(text)
    /\ UNCHANGED <<text, amount>>
    /\ UNCHANGED classifyVars
    /\ UNCHANGED <<raised, receiptVars, percentVars, registerVars, appVars>>

NextExtract == ExtractAmount \/ ExtractDate

SpecExtract == InitExtract /\ [][NextExtract]_vars


----------------------------------------------------------------------------
(* str.lower(), str.strip() and the substring test `word in s`             *)

UpperAlphabet == "ABCDEFGHIJKLMNOPQRSTUVWXYZ"
LowerAlphabet == "abcdefghijklmnopqrstuvwxyz"

LowerOf(c) ==
    IF c \in UpperLetters
    THEN Ch(LowerAlphabet, CHOOSE i \in 1..26 : Ch(UpperAlphabet, i) = c)
    ELSE c

RECURSIVE LowerFrom(_, _)
LowerFrom(s, i) ==
    IF i > Len(s) THEN "" ELSE LowerOf(Ch(s, i)) \o LowerFrom(s, i + 1)

Lower(s) == LowerFrom(s, 1)

\* word in s
Contains(s, word) ==
    \E i \in 1..(Len(s) - Len(word) + 1) : SubSeq(s, i, i + Len(word) - 1) = word

RECURSIVE Strip(_)
Strip(s) ==
    IF s = "" THEN ""
    ELSE IF IsSpace(Ch(s, 1)) THEN Strip(SubSeq(s, 2, Len(s)))
    ELSE IF IsSpace(Ch(s, Len(s))) THEN Strip(SubSeq(s, 1, Len(s) - 1))
    ELSE s

Range(seq) == {seq[i] : i \in 1..Len(seq)}

----------------------------------------------------------------------------
(* backend/app/services/ai_service.py                                      *)

TRANSACTION_CATEGORIES ==
    <<"Food & Dining", "Transportation", "Shopping", "Entertainment",
      "Healthcare", "Utilities", "Housing", "Insurance", "Education",
      "Travel", "Investment", "Salary", "Freelance", "Gifts", "Other">>

\* _simple_categorization with the Utilities test moved before the
\* Transportation test.
_simple_categorization_utilities_first(desc) ==
    LET description_lower == Lower(desc)
        any(words) == \E word \in words : Contains(description_lower, word)
    IN  IF any({"restaurant", "food", "dining", "cafe", "coffee", "pizza",
                "burger"})
        THEN "Food & Dining"
        ELSE IF any({"electric", "water", "gas", "internet", "phone",
                     "utility"})
        THEN "Utilities"
        ELSE IF any({"uber", "lyft", "taxi", "gas", "fuel", "parking", "metro",
                     "bus"})
        THEN "Transportation"
        ELSE IF any({"amazon", "walmart", "target", "shop", "store", "mall"})
        THEN "Shopping"
        ELSE IF any({"netflix", "spotify", "movie", "game", "concert",
                     "theater"})
        THEN "Entertainment"
        ELSE IF any({"doctor", "hospital", "pharmacy", "medical", "health"})
        THEN "Healthcare"
        ELSE IF any({"rent", "mortgage", "home", "apartment"})
        THEN "Housing"
        ELSE IF any({"salary", "payroll", "income", "deposit"})
        THEN "Salary"
        ELSE "Other"

\* _simple_categorization with "payment" among the Salary keywords, as
\* ExpenseTracker.predict_category has it among its Income keywords.
_simple_categorization_payment_salary(desc) ==
    LET description_lower == Lower(desc)
        any(words) == \E word \in words : Contains(description_lower, word)
    IN  IF any({"restaurant", "food", "dining", "cafe", "coffee", "pizza",
                "burger"})
        THEN "Food & Dining"
        ELSE IF any({"uber", "lyft", "taxi", "gas", "fuel", "parking", "metro",
                     "bus"})
        THEN "Transportation"
        ELSE IF any({"amazon", "walmart", "target", "shop", "store", "mall"})
        THEN "Shopping"
        ELSE IF any({"netflix", "spotify", "movie", "game", "concert",
                     "theater"})
        THEN "Entertainment"
        ELSE IF any({"doctor", "hospital", "pharmacy", "medical", "health"})
        THEN "Healthcare"
        ELSE IF any({"electric", "water", "gas", "internet", "phone",
                     "utility"})
        THEN "Utilities"
        ELSE IF any({"rent", "mortgage", "home", "apartment"})
        THEN "Housing"
        ELSE IF any({"salary", "payroll", "income", "deposit",
                     "payment"})
        THEN "Salary"
        ELSE "Other"

_simple_categorization(desc) ==
    LET description_lower == Lower(desc)
        any(words) == \E word \in words : Contains(description_lower, word)
    IN  IF any({"restaurant", "food", "dining", "cafe", "coffee", "pizza",
                "burger"})
        THEN "Food & Dining"
        ELSE IF any({"uber", "lyft", "taxi", "gas", "fuel", "parking", "metro",
                     "bus"})
        THEN "Transportation"
        ELSE IF any({"amazon", "walmart", "target", "shop", "store", "mall"})
        THEN "Shopping"
        ELSE IF any({"netflix", "spotify", "movie", "game", "concert",
                     "theater"})
        THEN "Entertainment"
        ELSE IF any({"doctor", "hospital", "pharmacy", "medical", "health"})
        THEN "Healthcare"
        ELSE IF any({"electric", "water", "gas", "internet", "phone",
                     "utility"})
        THEN "Utilities"
        ELSE IF any({"rent", "mortgage", "home", "apartment"})
        THEN "Housing"
        ELSE IF any({"salary", "payroll", "income", "deposit"})
        THEN "Salary"
        ELSE "Other"

\* What the call to the AI service does: it raises, or it answers with some
\* message content.
AiRaises == [outcome |-> "raise", content |-> ""]
AiAnswers(content) == [outcome |-> "answer", content |-> content]
AiNotCalled == [outcome |-> "none", content |-> ""]

\* categorize_transaction without the `if category not in
\* TRANSACTION_CATEGORIES` validation of the answer.
categorize_transaction_unvalidated(desc, key, ai) ==
    IF key = ""
    THEN [label |-> _simple_categorization(desc), confidence |-> 7,
          ai |-> AiNotCalled, raised |-> ""]
    ELSE IF ai.outcome = "raise"
    THEN [label |-> _simple_categorization(desc), confidence |-> 5, ai |-> ai,
          raised |-> ""]
    ELSE [label |-> Strip(ai.content), confidence |-> 9, ai |-> ai,
          raised |-> ""]

\* categorize_transaction without the `if not settings.OPENAI_API_KEY` test:
\* the AI service is called whether or not a key is configured.
categorize_transaction_no_key_test(desc, key, ai) ==
    IF ai.outcome = "raise"
    THEN [label |-> _simple_categorization(desc), confidence |-> 5, ai |-> ai,
          raised |-> ""]
    ELSE LET category == Strip(ai.content)
         IN  [label |-> IF category \notin Range(TRANSACTION_CATEGORIES)
                        THEN "Other" ELSE category,
              confidence |-> 9,
              ai |-> ai,
              raised |-> ""]

\* categorize_transaction without the try/except around the call: what the
\* AI service raises reaches the caller and nothing is returned.
categorize_transaction_uncaught(desc, key, ai) ==
    IF key = ""
    THEN [label |-> _simple_categorization(desc), confidence |-> 7,
          ai |-> AiNotCalled, raised |-> ""]
    ELSE IF ai.outcome = "raise"
    THEN [label |-> "", confidence |-> 0, ai |-> ai, raised |-> "Exception"]
    ELSE LET category == Strip(ai.content)
         IN  [label |-> IF category \notin Range(TRANSACTION_CATEGORIES)
                        THEN "Other" ELSE category,
              confidence |-> 9,
              ai |-> ai,
              raised |-> ""]

\* categorize_transaction trying the keyword rules before the AI service and
\* calling the service only when no rule matched.
categorize_transaction_rules_first(desc, key, ai) ==
    LET byRule == _simple_categorization(desc)
    IN  IF key = ""
        THEN [label |-> byRule, confidence |-> 7, ai |-> AiNotCalled,
              raised |-> ""]
        ELSE IF byRule # "Other"
        THEN [label |-> byRule, confidence |-> 9, ai |-> AiNotCalled,
              raised |-> ""]
        ELSE IF ai.outcome = "raise"
        THEN [label |-> byRule, confidence |-> 5, ai |-> ai, raised |-> ""]
        ELSE LET category == Strip(ai.content)
             IN  [label |-> IF category \notin Range(TRANSACTION_CATEGORIES)
                            THEN "Other" ELSE category,
                  confidence |-> 9,
                  ai |-> ai,
                  raised |-> ""]

\* categorize_transaction with the confidence following the label: the higher
\* tier for a label other than the default, the lower tier for "Other".
categorize_transaction_tiered(desc, key, ai) ==
    LET tier(l) == IF l = "Other" THEN 5 ELSE 7
    IN  IF key = ""
        THEN [label |-> _simple_categorization(desc),
              confidence |-> tier(_simple_categorization(desc)),
              ai |-> AiNotCalled, raised |-> ""]
        ELSE IF ai.outcome = "raise"
        THEN [label |-> _simple_categorization(desc),
              confidence |-> tier(_simple_categorization(desc)), ai |-> ai,
              raised |-> ""]
        ELSE LET category == Strip(ai.content)
             IN  [label |-> IF category \notin Range(TRANSACTION_CATEGORIES)
                            THEN "Other" ELSE category,
                  confidence |-> 9,
                  ai |-> ai,
                  raised |-> ""]

\* categorize_transaction(description), given what the AI service would do if
\* called: the label, the confidence (in tenths) and the AI call made.
categorize_transaction(desc, key, ai) ==
    IF key = ""
    THEN [label |-> _simple_categorization(desc), confidence |-> 7,
          ai |-> AiNotCalled, raised |-> ""]
    ELSE IF ai.outcome = "raise"
    THEN [label |-> _simple_categorization(desc), confidence |-> 5, ai |-> ai,
          raised |-> ""]
    ELSE LET category == Strip(ai.content)
         IN  [label |-> IF category \notin Range(TRANSACTION_CATEGORIES)
                        THEN "Other" ELSE category,
              confidence |-> 9,
              ai |-> ai,
              raised |-> ""]

----------------------------------------------------------------------------
(* src/expense_tracker.py: ExpenseTracker                                  *)

categories ==
    <<"Food & Dining", "Transportation", "Shopping", "Bills & Utilities",
      "Entertainment", "Healthcare", "Education", "Travel", "Insurance",
      "Investment", "Income", "Other">>

\* The dict category_keywords, in insertion order (the order a dict iterates).
category_keywords ==
    << <<"Food & Dining", <<"restaurant", "cafe", "coffee", "grocery", "food",
                            "dining", "meal", "pizza", "burger">> >>,
       <<"Transportation", <<"gas", "fuel", "uber", "lyft", "taxi", "bus",
                             "train", "parking", "toll">> >>,
       <<"Shopping", <<"amazon", "walmart", "target", "mall", "store", "shop",
                       "clothing", "shoes">> >>,
       <<"Bills & Utilities", <<"electric", "water", "gas", "internet",
                                "phone", "utility", "bill">> >>,
       <<"Entertainment", <<"netflix", "spotify", "movie", "theater",
                            "concert", "game", "entertainment">> >>,
       <<"Healthcare", <<"doctor", "pharmacy", "medical", "dental", "health",
                         "medicine">> >>,
       <<"Education", <<"tuition", "book", "course", "education", "school",
                        "university">> >>,
       <<"Travel", <<"hotel", "flight", "airline", "vacation", "travel",
                     "trip">> >>,
       <<"Insurance", <<"insurance", "premium", "coverage">> >>,
       <<"Investment", <<"stock", "investment", "portfolio", "fund",
                         "broker">> >>,
       <<"Income", <<"salary", "deposit", "income", "payment", "refund">> >> >>

\* for category, keywords in category_keywords.items(): if any(...): return
\* The category of the first entry from n on with a keyword in the lowercased
\* description, "" when the loop ends without returning.
RECURSIVE FirstKeywordCategory(_, _)
FirstKeywordCategory(description_lower, n) ==
    IF n > Len(category_keywords) THEN ""
    ELSE IF \E k \in 1..Len(category_keywords[n][2]) :
                Contains(description_lower, category_keywords[n][2][k])
    THEN category_keywords[n][1]
    ELSE FirstKeywordCategory(description_lower, n + 1)

\* predict_category looking at the sign of the amount before the keywords.
predict_category_sign_first(desc, amt) ==
    LET description_lower == Lower(desc)
        byKeyword == FirstKeywordCategory(description_lower, 1)
    IN  IF amt > 0 THEN "Income"
        ELSE IF byKeyword # "" THEN byKeyword
        ELSE IF Contains(description_lower, "subscription")
                \/ Contains(description_lower, "monthly")
        THEN "Bills & Utilities"
        ELSE "Other"

predict_category(desc, amt) ==
    LET description_lower == Lower(desc)
        byKeyword == FirstKeywordCategory(description_lower, 1)
    IN  IF byKeyword # "" THEN byKeyword
        ELSE IF amt > 0 THEN "Income"
        ELSE IF Contains(description_lower, "subscription")
                \/ Contains(description_lower, "monthly")
        THEN "Bills & Utilities"
        ELSE "Other"

----------------------------------------------------------------------------
(* The inputs of the classifiers                                           *)

DescFragments ==
    {"Starbucks", " ", "Coffee", "gas", "GAS Station", "Electric bill",
     "monthly", "qwe"}

MaxDescFrags == 2

RECURSIVE DescriptionsOf(_)
DescriptionsOf(n) ==
    IF n = 0 THEN {""}
    ELSE LET shorter == DescriptionsOf(n - 1)
         IN  shorter \cup {p \o f : p \in shorter, f \in DescFragments}

Descriptions ==
    DescriptionsOf(MaxDescFrags)
    \cup {"Starbucks Coffee", "XYZ123 Unknown Vendor Payment", "Rent",
          "Las Vegas trip", "Netflix subscription", "Shell GAS & water bill",
          "Monthly Subscription"}

\* Transaction amounts: an expense, nothing, an income.
TxAmounts == {-1250, 0, 1250}

ApiKeys == {"", "sk-test"}

\* What the AI service may answer: a label of the vocabulary (bare, padded
\* with whitespace), a label outside it, a label in another case, nothing.
AiContents ==
    {"Shopping", " Travel\n", "Groceries", "food & dining",
     "Bills & Utilities", ""}

AiBehaviours == {AiRaises} \cup {AiAnswers(c) : c \in AiContents}

----------------------------------------------------------------------------
(* The classifiers as a state machine: one description is classified by    *)
(* one of the three entry points.  The description and the configured key  *)
(* are given; the amount is the argument of the call that takes one.       *)

ExtractorIdle ==
    /\ text = ""
    /\ amount = NotRunAmount
    /\ date = NotRunDate

InitClassify ==
    /\ description \in Descriptions
    /\ txAmount = 0
    /\ OPENAI_API_KEY \in ApiKeys
    /\ aiCalls = 0
    /\ aiOutcome = "none"
    /\ aiContent = ""
    /\ label = ""
    /\ confidence = 0
    /\ classifier = "none"
    /\ ExtractorIdle
    /\ raised = ""
    /\ ReceiptIdle
    /\ PercentIdle
    /\ RegisterIdle
    /\ AppIdle

\* await categorize_transaction(description): the AI service, when called,
\* raises or answers with any content.
CategorizeTransaction ==
    /\ classifier = "none"
    /\ \E ai \in AiBehaviours :
          LET r == categorize_transaction(description, OPENAI_API_KEY, ai)
          IN  /\ label' = r.label
              /\ confidence' = r.confidence
              /\ aiOutcome' = r.ai.outcome
              /\ aiContent' = r.ai.content
              /\ aiCalls' = IF r.ai.outcome = "none" THEN aiCalls
                            ELSE aiCalls + 1
              /\ raised' = r.raised
    /\ classifier' = "categorize_transaction"
    /\ UNCHANGED <<description, txAmount, OPENAI_API_KEY>>
    /\ UNCHANGED extractVars
    /\ UNCHANGED <<receiptVars, percentVars, registerVars, appVars>>

SimpleCategorization ==
    /\ classifier = "none"
    /\ label' = _simple_categorization(description)
    /\ classifier' = "_simple_categorization"
    /\ UNCHANGED <<description, txAmount, OPENAI_API_KEY, aiCalls, aiOutcome,
                   aiContent, confidence>>
    /\ UNCHANGED extractVars
    /\ UNCHANGED <<raised, receiptVars, percentVars, registerVars, appVars>>

\* predict_category(description, amount) for any amount.
PredictCategory ==
    /\ classifier = "none"
    /\ \E amt \in TxAmounts :
          /\ txAmount' = amt
          /\ label' = predict_category(description, amt)
    /\ classifier' = "predict_category"
    /\ UNCHANGED <<description, OPENAI_API_KEY, aiCalls, aiOutcome,
                   aiContent, confidence>>
    /\ UNCHANGED extractVars
    /\ UNCHANGED <<raised, receiptVars, percentVars, registerVars, appVars>>

NextClassify == CategorizeTransaction \/ SimpleCategorization \/ PredictCategory

SpecClassify == InitClassify /\ [][NextClassify]_vars


----------------------------------------------------------------------------
(* ocr/receipt_parser.py: extract_receipt_data                             *)

\* s.split("\n"): the pieces of s between the newlines, "" included.
RECURSIVE split(_)
split(s) ==
    LET newlines == {i \in 1..Len(s) : Ch(s, i) = "\n"}
    IN  IF newlines = {} THEN <<s>>
        ELSE LET i == CHOOSE n \in newlines : \A k \in newlines : n <= k
             IN  <<SubSeq(s, 1, i - 1)>> \o split(SubSeq(s, i + 1, Len(s)))

\* [line.strip() for line in lines if line.strip()]
RECURSIVE StrippedNonEmpty(_)
StrippedNonEmpty(ls) ==
    IF ls = <<>> THEN <<>>
    ELSE LET line == Strip(Head(ls))
         IN  (IF line # "" THEN <<line>> ELSE <<>>) \o StrippedNonEmpty(Tail(ls))

\* The list lines after lines 14 and 15.
lines(text_) == StrippedNonEmpty(split(Strip(text_)))

\* vendor taken from the first piece of the split, blank or not.
Vendor_unfiltered(text_) ==
    LET first == Head(split(text_))
    IN  IF first # "" THEN first ELSE "Unknown Vendor"

\* vendor without the placeholder: "" when there is no line.
Vendor_no_placeholder(text_) ==
    IF lines(text_) # <<>> THEN lines(text_)[1] ELSE ""

\* vendor = lines[0] if lines else "Unknown Vendor"
Vendor(text_) ==
    IF lines(text_) # <<>> THEN lines(text_)[1] ELSE "Unknown Vendor"

\* models/categorizer.py is not part of the sources; what follows is the
\* classifier of the specification: a label of its fixed set for any text, the
\* default "Other" for a text with nothing in it.
CategorizerLabels ==
    {"Food & Dining", "Transportation", "Shopping", "Entertainment",
     "Healthcare", "Utilities", "Housing", "Salary", "Other"}

categorizer_predict_category(text_) ==
    IF Strip(text_) = "" THEN {"Other"} ELSE CategorizerLabels

\* What pytesseract.image_to_string does: it raises, or it returns a text.
OcrRaises == [outcome |-> "raise", text |-> ""]
OcrReturns(text_) == [outcome |-> "text", text |-> text_]

\* extract_text_from_image with the call wrapped: a failure of the OCR engine
\* is caught and the recognized text is empty.
extract_text_from_image_wrapped(engine) ==
    IF engine.outcome = "raise" THEN [raised |-> "", text |-> ""]
    ELSE [raised |-> "", text |-> engine.text]

\* extract_text_from_image(image): the text of the engine, or the exception
\* of the engine, which nothing on the way to the caller catches.
extract_text_from_image(engine) ==
    IF engine.outcome = "raise" THEN [raised |-> "TesseractError", text |-> ""]
    ELSE [raised |-> "", text |-> engine.text]

\* The dict of lines 22-28.
ReceiptRecord(vendor_, amount_, date_, category_, raw_text_) ==
    [vendor |-> vendor_, amount |-> amount_, date |-> date_,
     category |-> category_, raw_text |-> raw_text_]

\* The lines of the recognized texts, and the texts of up to MaxLines lines.
LineFragments ==
    {"", "  ", "Cafe Coffee Day", "\tTotal: Rs. 1,234.56 ", "15/03/2024 10:30",
     "\r"}

MaxLines == 2

RECURSIVE TextsOfLines(_)
TextsOfLines(n) ==
    IF n = 1 THEN LineFragments
    ELSE LET shorter == TextsOfLines(n - 1)
         IN  shorter \cup {p \o "\n" \o f : p \in shorter, f \in LineFragments}

RecognizedTexts ==
    TextsOfLines(MaxLines)
    \cup {"\n\n \t\n", "Cafe Coffee Day\nLatte 2 x 120.00\nTotal: Rs. 240.00\n12/01/2024\n\f",
          " \n\n  Big Bazaar  \nINR 1,050.5"}

OcrBehaviours == {OcrRaises} \cup {OcrReturns(t) : t \in RecognizedTexts}

InitReceipt ==
    /\ ReceiptIdle
    /\ raised = ""
    /\ ExtractorIdle
    /\ ClassifierIdle
    /\ PercentIdle
    /\ RegisterIdle
    /\ AppIdle

receiptOthers == <<text, classifyVars, percentVars, registerVars, appVars>>

\* extract_receipt_data(image) is called.
ReceiptCall ==
    /\ pc = "idle"
    /\ pc' = "recognize"
    /\ UNCHANGED <<ocr, raw_text, vendor, predicted, stages, records, amount,
                   date, raised>>
    /\ UNCHANGED receiptOthers

\* line 13: raw_text = extract_text_from_image(image)
ReceiptRecognize ==
    /\ pc = "recognize"
    /\ \E engine \in OcrBehaviours :
          LET r == extract_text_from_image(engine)
          IN  /\ ocr' = engine
              /\ raised' = r.raised
              /\ raw_text' = r.text
              /\ pc' = IF r.raised # "" THEN "raised" ELSE "vendor"
    /\ stages' = Append(stages, "recognize")
    /\ UNCHANGED <<vendor, predicted, records, amount, date>>
    /\ UNCHANGED receiptOthers

\* lines 14-17
ReceiptVendor ==
    /\ pc = "vendor"
    /\ vendor' = Vendor(raw_text)
    /\ stages' = Append(stages, "vendor")
    /\ pc' = "amount"
    /\ UNCHANGED <<ocr, raw_text, predicted, records, amount, date, raised>>
    /\ UNCHANGED receiptOthers

\* line 18
ReceiptAmount ==
    /\ pc = "amount"
    /\ amount' = extract_amount(raw_text)
    /\ stages' = Append(stages, "amount")
    /\ pc' = "date"
    /\ UNCHANGED <<ocr, raw_text, vendor, predicted, records, date, raised>>
    /\ UNCHANGED receiptOthers

\* line 19
ReceiptDate ==
    /\ pc = "date"
    /\ date' = extract_date(raw_text)
    /\ stages' = Append(stages, "date")
    /\ pc' = "category"
    /\ UNCHANGED <<ocr, raw_text, vendor, predicted, records, amount, raised>>
    /\ UNCHANGED receiptOthers

\* line 20
ReceiptCategory ==
    /\ pc = "category"
    /\ predicted' \in categorizer_predict_category(raw_text)
    /\ stages' = Append(stages, "category")
    /\ pc' = "return"
    /\ UNCHANGED <<ocr, raw_text, vendor, records, amount, date, raised>>
    /\ UNCHANGED receiptOthers

\* lines 22-28
ReceiptReturn ==
    /\ pc = "return"
    /\ records' = Append(records,
                         ReceiptRecord(vendor, amount, date, predicted, raw_text))
    /\ pc' = "done"
    /\ UNCHANGED <<ocr, raw_text, vendor, predicted, stages, amount, date,
                   raised>>
    /\ UNCHANGED receiptOthers

NextReceipt ==
    \/ ReceiptCall
    \/ ReceiptRecognize
    \/ ReceiptVendor
    \/ ReceiptAmount
    \/ ReceiptDate
    \/ ReceiptCategory
    \/ ReceiptReturn

SpecReceipt == InitReceipt /\ [][NextReceipt]_vars


----------------------------------------------------------------------------
(* utils.py: calculate_percentage_change                                   *)

RECURSIVE Gcd(_, _)
Gcd(a, b) == IF b = 0 THEN a ELSE Gcd(b, a % b)

Abs(a) == IF a < 0 THEN -a ELSE a

\* The number num / den (den # 0) in lowest terms with a positive denominator.
Rational(num, den) ==
    LET g == Gcd(Abs(num), Abs(den))
        sign == IF den < 0 THEN -1 ELSE 1
    IN  [tag |-> "float", num |-> sign * (num \div g), den |-> sign * (den \div g)]

\* a / b and r * k on these numbers.
TrueDiv(a, b) == Rational(a, b)
Times(r, k) == Rational(r.num * k, r.den)

IntZero == [tag |-> "int", num |-> 0, den |-> 1]
ZeroDivisionError == [tag |-> "ZeroDivisionError", num |-> 0, den |-> 1]

\* calculate_percentage_change without the `if old_value == 0` test.
calculate_percentage_change_unguarded(old, new) ==
    IF old = 0 THEN ZeroDivisionError
    ELSE Times(TrueDiv(new - old, old), 100)

calculate_percentage_change(old, new) ==
    IF old = 0 THEN IntZero
    ELSE Times(TrueDiv(new - old, old), 100)

\* The arguments: the integers up to MaxValue either side of zero, and the
\* values of the test.
MaxValue == 6

Values == (-MaxValue..MaxValue) \cup {100, 120}

InitPercent ==
    /\ old_value \in Values
    /\ new_value \in Values
    /\ change = NotRunChange
    /\ raised = ""
    /\ ExtractorIdle
    /\ ClassifierIdle
    /\ ReceiptIdle
    /\ RegisterIdle
    /\ AppIdle

CalculatePercentageChange ==
    /\ change.tag = "NotRun"
    /\ change' = calculate_percentage_change(old_value, new_value)
    /\ UNCHANGED <<old_value, new_value, raised>>
    /\ UNCHANGED <<extractVars, classifyVars, receiptVars, registerVars, appVars>>

NextPercent == CalculatePercentageChange

SpecPercent == InitPercent /\ [][NextPercent]_vars

----------------------------------------------------------------------------
(* backend/app/api/v1/endpoints/auth.py: POST /auth/register                *)

\* app/core/auth.py is not part of the sources: the token made from the
\* claims it is given carries their subject.
create_access_token(data) == [sub |-> data.sub]

HTTP_400_BAD_REQUEST == 400
HTTP_200_OK == 200

\* The id the table gives a new row.
NextId(us) == Cardinality(us) + 1

\* register looking for an existing user by email only.
register_email_only(us, data) ==
    LET existing_user == {u \in us : u.email = data.email}
    IN  IF existing_user # {}
        THEN [users |-> us,
              response |-> [status |-> HTTP_400_BAD_REQUEST,
                            access_token |-> NoToken, token_type |-> ""]]
        ELSE LET db_user == [id |-> NextId(us), email |-> data.email,
                             username |-> data.username]
             IN  [users |-> us \cup {db_user},
                  response |-> [status |-> HTTP_200_OK,
                                access_token |->
                                    create_access_token([sub |-> db_user.email]),
                                token_type |-> "bearer"]]

\* register(register_data, db): the users table afterwards and the response.
register(us, data) ==
    LET existing_user ==
            {u \in us : u.email = data.email \/ u.username = data.username}
    IN  IF existing_user # {}
        THEN [users |-> us,
              response |-> [status |-> HTTP_400_BAD_REQUEST,
                            access_token |-> NoToken, token_type |-> ""]]
        ELSE LET db_user == [id |-> NextId(us), email |-> data.email,
                             username |-> data.username]
             IN  [users |-> us \cup {db_user},
                  response |-> [status |-> HTTP_200_OK,
                                access_token |->
                                    create_access_token([sub |-> db_user.email]),
                                token_type |-> "bearer"]]

Emails == {"ann@example.com", "bob@example.com", "cy@example.com"}
Usernames == {"ann", "bob", "cy"}

InitRegister ==
    /\ RegisterIdle
    /\ AppIdle
    /\ raised = ""
    /\ ExtractorIdle
    /\ ClassifierIdle
    /\ ReceiptIdle
    /\ PercentIdle

\* One request, handled from start to end.
Register ==
    /\ \E email \in Emails, username \in Usernames :
          LET data == [email |-> email, username |-> username]
              r == register(users, data)
          IN  /\ register_data' = data
              /\ users' = r.users
              /\ response' = r.response
    /\ UNCHANGED raised
    /\ UNCHANGED <<extractVars, classifyVars, receiptVars, percentVars, appVars>>

NextRegister == Register

SpecRegister == InitRegister /\ [][NextRegister]_vars


----------------------------------------------------------------------------
(* pages/receipt_scanner.py: run                                           *)

\* str(n) for n >= 0, and n in two digits.
RECURSIVE DecimalString(_)
DecimalString(n) ==
    IF n < 10 THEN Ch("0123456789", n + 1)
    ELSE DecimalString(n \div 10) \o Ch("0123456789", (n % 10) + 1)

TwoDigits(n) == IF n < 10 THEN "0" \o DecimalString(n) ELSE DecimalString(n)

\* date.strftime("%Y-%m-%d")
strftime(d) ==
    DecimalString(d.y) \o "-" \o TwoDigits(d.m) \o "-" \o TwoDigits(d.d)

\* datetime.today(), the default of the date field.
Today == [tag |-> "date", y |-> 2026, m |-> 11, d |-> 6]

\* The row of the INSERT of lines 29-32.
TransactionRow(user, vendor_, date_, amount_, category_, note) ==
    [username |-> user, vendor |-> vendor_, date |-> strftime(date_),
     amount |-> amount_, category |-> category_, note |-> note]

\* The save inserting what the pipeline extracted instead of what the form
\* holds.
save_receipt_unedited(rows, user, result, form) ==
    Append(rows, TransactionRow(user, result.vendor, form.date, result.amount,
                                result.category, form.note))

\* lines 26-33: the INSERT of the form's values and the commit.
save_receipt(rows, user, result, form) ==
    Append(rows, TransactionRow(user, form.vendor, form.date, form.amount,
                                form.category, form.note))

\* What the OCR engine may do for the uploaded image.
ScannerTexts == {"", "Cafe Coffee Day\nTotal: Rs. 240.00\n12/01/2024"}

ScannerOcr == {OcrRaises} \cup {OcrReturns(t) : t \in ScannerTexts}

\* extract_receipt_data for each of these texts; the category is the
\* classifier's and is filled in by the run.
ScannerResults ==
    [t \in ScannerTexts |->
        [vendor |-> Vendor(t), amount |-> extract_amount(t),
         date |-> extract_date(t), category |-> "", raw_text |-> t]]

\* The labels the classifier gives on this page.
ScannerLabels == {"Other", "Food & Dining"}

\* The user of the session, st.session_state["user"].
ScannerUsers == {"asha", "ravi"}

\* What the user leaves in or types into the form: the prefilled values with
\* an empty note, or a vendor, a category and a note of their own.
FormOf(result, edited) ==
    [vendor |-> IF edited THEN "Corrected Vendor" ELSE result.vendor,
     date |-> IF result.date.tag = "None" THEN Today ELSE result.date,
     amount |-> result.amount,
     category |-> IF edited THEN "Groceries" ELSE result.category,
     note |-> IF edited THEN "lunch" ELSE ""]

MaxRows == 2

InitScanner ==
    /\ ScannerIdle
    /\ SessionIdle
    /\ ApiIdle
    /\ SignupIdle
    /\ raised = ""
    /\ ExtractorIdle
    /\ ClassifierIdle
    /\ ReceiptIdle
    /\ PercentIdle
    /\ RegisterIdle

scannerOthers ==
    <<extractVars, classifyVars, receiptVars, percentVars, registerVars,
      sessionVars, apiVars, signupVars>>

\* A run of the page with no file uploaded: nothing is shown but the uploader.
ScannerRunEmpty ==
    /\ scan' = NoScan
    /\ raised' = ""
    /\ UNCHANGED sqlite_transactions
    /\ UNCHANGED scannerOthers

\* A run of the page with a file uploaded, when the OCR engine raises: the
\* exception ends the run at line 16.
ScannerRunOcrRaises ==
    /\ \E user \in ScannerUsers :
          LET r == extract_text_from_image(OcrRaises)
          IN  /\ raised' = r.raised
              /\ scan' = [NoScan EXCEPT !.uploaded = TRUE, !.user = user]
    /\ UNCHANGED sqlite_transactions
    /\ UNCHANGED scannerOthers

\* A run of the page with a file uploaded: the record is extracted, the form
\* is shown with the record and, when the run is the one of a click on Save,
\* the row is inserted.
ScannerRun ==
    /\ \E user \in ScannerUsers, text_ \in ScannerTexts, edited \in BOOLEAN,
          submitted \in BOOLEAN :
          \E category_ \in categorizer_predict_category(text_) \cap ScannerLabels,
             r \in {extract_text_from_image(OcrReturns(text_))} :
             \E result \in {[ScannerResults[r.text] EXCEPT
                                !.category = category_]} :
                \E form \in {FormOf(result, edited)} :
                   /\ submitted => Len(sqlite_transactions) < MaxRows
                   /\ scan' = [uploaded |-> TRUE, submitted |-> submitted,
                               user |-> user, vendor |-> form.vendor,
                               date |-> form.date, amount |-> form.amount,
                               category |-> form.category, note |-> form.note]
                   /\ sqlite_transactions' =
                         IF submitted
                         THEN save_receipt(sqlite_transactions, user, result,
                                           form)
                         ELSE sqlite_transactions
    /\ raised' = ""
    /\ UNCHANGED scannerOthers

NextScanner == ScannerRunEmpty \/ ScannerRunOcrRaises \/ ScannerRun

SpecScanner == InitScanner /\ [][NextScanner]_vars


----------------------------------------------------------------------------
(* app.py: FinMateApp, and src/auth.py: AuthManager, on st.session_state    *)

\* hashlib.sha256(password.encode()).hexdigest(): one digest per password.
sha256(password) == "sha256(" \o password \o ")"

\* The rows of the users table of the database, in the order a select
\* returns them.  A column a row has no value for is Missing.
supabase_users ==
    << [id |-> "1", full_name |-> "Asha Rao", email |-> "asha@example.com",
        password_hash |-> sha256("asha-pass"), age |-> "31",
        income_bracket |-> "$75k-$100k"],
       [id |-> "2", full_name |-> "Ravi Iyer", email |-> "ravi@example.com",
        password_hash |-> sha256("ravi-pass"), age |-> Missing,
        income_bracket |-> Missing],
       [id |-> "3", full_name |-> "Meera Nair", email |-> "meera@example.com",
        password_hash |-> sha256("meera-pass"), age |-> "44",
        income_bracket |-> Missing] >>

\* user.get(key, default)
Get(user, key, default) == IF user[key] = Missing THEN default ELSE user[key]

\* The session with the keys authenticate_user sets for a user.
SessionOf(sess, user) ==
    [sess EXCEPT !["authenticated"] = "True",
                 !["user_id"] = user.id,
                 !["user_name"] = user.full_name,
                 !["user_email"] = user.email,
                 !["user_age"] = Get(user, "age", "25"),
                 !["income_bracket"] = Get(user, "income_bracket", "$50k-$75k")]

\* select("*").eq("email", email): the rows with the email, in order.
RowsWithEmail(email) == SelectSeq(supabase_users, LAMBDA u : u.email = email)

\* authenticate_user without the comparison of the password hashes.
authenticate_user_any_password(sess, client, email, password, execute) ==
    IF client = "None" THEN [ok |-> FALSE, session |-> sess]
    ELSE IF execute = "raise" THEN [ok |-> FALSE, session |-> sess]
    ELSE LET data == RowsWithEmail(email)
         IN  IF data # <<>>
             THEN [ok |-> TRUE, session |-> SessionOf(sess, data[1])]
             ELSE [ok |-> FALSE, session |-> sess]

\* AuthManager.authenticate_user(email, password) on the session sess, with
\* the client of the manager and what execute() does (it answers or raises).
authenticate_user(sess, client, email, password, execute) ==
    IF client = "None" THEN [ok |-> FALSE, session |-> sess]
    ELSE IF execute = "raise" THEN [ok |-> FALSE, session |-> sess]
    ELSE LET data == RowsWithEmail(email)
         IN  IF data # <<>> /\ data[1].password_hash = sha256(password)
             THEN [ok |-> TRUE, session |-> SessionOf(sess, data[1])]
             ELSE [ok |-> FALSE, session |-> sess]

\* AuthManager.logout(): the six keys are deleted.
logout(sess) ==
    [k \in SessionKeys |->
        IF k \in {"authenticated", "user_id", "user_name", "user_email",
                  "user_age", "income_bracket"}
        THEN Missing ELSE sess[k]]

\* The Logout button of the sidebar, lines 228-231.
sidebar_logout(sess) ==
    [sess EXCEPT !["authenticated"] = "False",
                 !["user_id"] = "None",
                 !["user_name"] = "None"]

\* FinMateApp.__init__, lines 111-117: the keys not yet in the session get
\* their defaults.
app_init(sess) ==
    [sess EXCEPT
        !["authenticated"] = IF @ = Missing THEN "False" ELSE @,
        !["user_id"] = IF @ = Missing THEN "None" ELSE @,
        !["user_name"] = IF @ = Missing THEN "None" ELSE @]

\* What a run shows to a user who is logged in, by whether the Logout button
\* was clicked (st.rerun() then ends the run inside the sidebar) and whether
\* the session says that the setup is complete.
PagesShown(sess, clicked) ==
    IF clicked THEN {"sidebar"}
    ELSE {"sidebar", "feature"}
             \cup (IF sess["setup_complete"] = "True" THEN {} ELSE {"welcome"})

\* The session after such a run: the Logout button, or else the Complete
\* Setup button of the welcome screen when it is shown and clicked.
SessionAfter(sess, clicked, complete) ==
    IF clicked THEN sidebar_logout(sess)
    ELSE IF complete /\ "welcome" \in PagesShown(sess, clicked)
         THEN [sess EXCEPT !["setup_complete"] = "True"]
         ELSE sess

\* run without the test of the authenticated flag.
run_ungated(sess, clicked, complete) ==
    [rendered |-> PagesShown(sess, clicked),
     session |-> SessionAfter(sess, clicked, complete),
     raised |-> ""]

\* FinMateApp.run(): what is shown, the session afterwards and the exception
\* that ends the run.  show_login_page calls AuthManager.show_login, which
\* AuthManager does not define (it defines show_login_form): the login page
\* is shown down to its Login heading and the run ends with AttributeError.
run(sess, clicked, complete) ==
    IF sess["authenticated"] # "True"
    THEN [rendered |-> {"login"}, session |-> sess, raised |-> "AttributeError"]
    ELSE [rendered |-> PagesShown(sess, clicked),
          session |-> SessionAfter(sess, clicked, complete),
          raised |-> ""]

LoginEmails ==
    {"asha@example.com", "ravi@example.com", "meera@example.com",
     "nobody@example.com"}
LoginPasswords == {"asha-pass", "ravi-pass", "meera-pass", "wrong"}

InitSession ==
    /\ session = [k \in SessionKeys |-> Missing]
    /\ supabase \in {"client", "None"}
    /\ matched = NoUser
    /\ lastOp = "none"
    /\ rendered = {}
    /\ ScannerIdle
    /\ ApiIdle
    /\ SignupIdle
    /\ raised = ""
    /\ ExtractorIdle
    /\ ClassifierIdle
    /\ ReceiptIdle
    /\ PercentIdle
    /\ RegisterIdle

sessionOthers ==
    <<extractVars, classifyVars, receiptVars, percentVars, registerVars,
      scannerVars, apiVars, signupVars>>

\* main(): one run of the script, FinMateApp() and then run().
Main ==
    /\ \E clicked \in BOOLEAN, complete \in BOOLEAN :
          LET r == run(app_init(session), clicked, complete)
          IN  /\ session' = r.session
              /\ rendered' = r.rendered
              /\ raised' = r.raised
              /\ lastOp' = IF r.session["authenticated"]
                                  # app_init(session)["authenticated"]
                           THEN "sidebar_logout" ELSE "run"
    /\ UNCHANGED <<supabase, matched>>
    /\ UNCHANGED sessionOthers

\* A call of AuthManager.authenticate_user with any email and password.
AuthenticateUser ==
    /\ \E email \in LoginEmails, password \in LoginPasswords,
          execute \in {"answer", "raise"} :
          LET r == authenticate_user(session, supabase, email, password, execute)
              found == {i \in 1..Len(supabase_users) :
                           /\ supabase_users[i].email = email
                           /\ supabase_users[i].password_hash = sha256(password)}
          IN  /\ session' = r.session
              /\ lastOp' = IF r.ok THEN "authenticate_user: True"
                           ELSE "authenticate_user: False"
              /\ matched' = IF ~r.ok THEN matched
                            ELSE IF found = {} THEN NoUser
                            ELSE supabase_users[CHOOSE i \in found : TRUE]
    /\ UNCHANGED <<supabase, rendered, raised>>
    /\ UNCHANGED sessionOthers

\* A call of AuthManager.logout().
Logout ==
    /\ session' = logout(session)
    /\ lastOp' = "logout"
    /\ UNCHANGED <<supabase, matched, rendered, raised>>
    /\ UNCHANGED sessionOthers

NextSession == Main \/ AuthenticateUser \/ Logout

SpecSession == InitSession /\ [][NextSession]_vars


----------------------------------------------------------------------------
(* backend/app/api/v1/endpoints/transactions.py                            *)

HTTP_404_NOT_FOUND == 404

\* The users get_current_user may resolve the token of a request to.
ApiUsers == {1, 2}

\* The reply of a handler that raises HTTPException(status_code=404).
NotFound == [status |-> HTTP_404_NOT_FOUND, items |-> {}]

\* The reply of a handler that returns rows.
Ok(items) == [status |-> HTTP_200_OK, items |-> items]

\* setattr(row, field, value) for every field of the data that is in fields.
SetAttrs(row, data, fields) ==
    [f \in DOMAIN row |->
        IF f \in DOMAIN data /\ f \in fields THEN data[f] ELSE row[f]]

\* create_transaction: the category is the classifier's when the body has
\* none; the row belongs to the caller.
create_transaction(table, current_user, body, key, ai) ==
    LET category == IF body.category = ""
                    THEN categorize_transaction(body.description, key, ai).label
                    ELSE body.category
        db_transaction == [id |-> table.last_id + 1,
                           user_id |-> current_user,
                           amount |-> body.amount,
                           description |-> body.description,
                           category |-> category]
    IN  [table |-> [rows |-> table.rows \cup {db_transaction},
                    last_id |-> table.last_id + 1],
         reply |-> Ok({db_transaction})]

\* get_transactions with the default skip and limit: category is the
\* optional filter ("" when it is not given).
get_transactions(table, current_user, category) ==
    [table |-> table,
     reply |-> Ok({t \in table.rows :
                      /\ t.user_id = current_user
                      /\ (category # "" => t.category = category)})]

\* The rows the query of get, update and delete selects.
OwnTransaction(table, transaction_id, current_user) ==
    {t \in table.rows : t.id = transaction_id /\ t.user_id = current_user}

get_transaction(table, transaction_id, current_user) ==
    LET found == OwnTransaction(table, transaction_id, current_user)
    IN  IF found = {} THEN [table |-> table, reply |-> NotFound]
        ELSE [table |-> table, reply |-> Ok(found)]

\* The fields of the schema TransactionUpdate the model keeps; what a body
\* has besides them is dropped when the body is parsed.
TransactionUpdateFields == {"amount", "description", "category"}

\* update_transaction with the query by id alone.
update_transaction_by_id(table, transaction_id, body, current_user) ==
    LET found == {t \in table.rows : t.id = transaction_id}
    IN  IF found = {} THEN [table |-> table, reply |-> NotFound]
        ELSE LET db_transaction == CHOOSE t \in found : TRUE
                 updated == SetAttrs(db_transaction, body,
                                     TransactionUpdateFields)
             IN  [table |-> [table EXCEPT !.rows =
                                 (@ \ {db_transaction}) \cup {updated}],
                  reply |-> Ok({updated})]

update_transaction(table, transaction_id, body, current_user) ==
    LET found == OwnTransaction(table, transaction_id, current_user)
    IN  IF found = {} THEN [table |-> table, reply |-> NotFound]
        ELSE LET db_transaction == CHOOSE t \in found : TRUE
                 updated == SetAttrs(db_transaction, body,
                                     TransactionUpdateFields)
             IN  [table |-> [table EXCEPT !.rows =
                                 (@ \ {db_transaction}) \cup {updated}],
                  reply |-> Ok({updated})]

delete_transaction(table, transaction_id, current_user) ==
    LET found == OwnTransaction(table, transaction_id, current_user)
    IN  IF found = {} THEN [table |-> table, reply |-> NotFound]
        ELSE [table |-> [table EXCEPT !.rows = @ \ found],
              reply |-> Ok({})]

MaxTransactions == 2

\* Bodies of POST /transactions: one without a category, one with.
TransactionCreates ==
    {[amount |-> 5, description |-> "Starbucks Coffee", category |-> ""],
     [amount |-> 9, description |-> "Rent", category |-> "Housing"]}

\* Bodies of PUT /transactions/{id}: a new category alone, sent together
\* with a user_id and an id, which the schema does not have.
TransactionUpdates ==
    {[category |-> "Shopping", user_id |-> 2, id |-> 1]}

\* Transaction ids a request may name: those given out and one never given.
TransactionIds == 1..(MaxTransactions + 1)

InitTransactions ==
    /\ ApiIdle
    /\ SessionIdle
    /\ ScannerIdle
    /\ SignupIdle
    /\ raised = ""
    /\ ExtractorIdle
    /\ ClassifierIdle
    /\ ReceiptIdle
    /\ PercentIdle
    /\ RegisterIdle

apiOthers ==
    <<raised, extractVars, classifyVars, receiptVars, percentVars, registerVars,
      sessionVars, scannerVars, signupVars>>

CreateTransaction ==
    /\ transactions.last_id < MaxTransactions
    /\ \E current_user \in ApiUsers, body \in TransactionCreates,
          key \in ApiKeys :
          LET r == create_transaction(transactions, current_user, body, key,
                                      AiAnswers("Shopping"))
          IN  /\ request' = [op |-> "create_transaction",
                             caller |-> current_user, id |-> 0, body |-> body]
              /\ transactions' = r.table
              /\ reply' = r.reply
    /\ UNCHANGED <<subscriptions, progress>>
    /\ UNCHANGED apiOthers

GetTransactions ==
    /\ \E current_user \in ApiUsers, category \in {"", "Shopping"} :
          LET r == get_transactions(transactions, current_user, category)
          IN  /\ request' = [op |-> "get_transactions",
                             caller |-> current_user, id |-> 0,
                             body |-> [category |-> category]]
              /\ transactions' = r.table
              /\ reply' = r.reply
    /\ UNCHANGED <<subscriptions, progress>>
    /\ UNCHANGED apiOthers

GetTransaction ==
    /\ \E current_user \in ApiUsers, transaction_id \in TransactionIds :
          LET r == get_transaction(transactions, transaction_id, current_user)
          IN  /\ request' = [op |-> "get_transaction",
                             caller |-> current_user, id |-> transaction_id,
                             body |-> <<>>]
              /\ transactions' = r.table
              /\ reply' = r.reply
    /\ UNCHANGED <<subscriptions, progress>>
    /\ UNCHANGED apiOthers

UpdateTransaction ==
    /\ \E current_user \in ApiUsers, transaction_id \in TransactionIds,
          body \in TransactionUpdates :
          LET r == update_transaction(transactions, transaction_id, body,
                                      current_user)
          IN  /\ request' = [op |-> "update_transaction",
                             caller |-> current_user, id |-> transaction_id,
                             body |-> body]
              /\ transactions' = r.table
              /\ reply' = r.reply
    /\ UNCHANGED <<subscriptions, progress>>
    /\ UNCHANGED apiOthers

DeleteTransaction ==
    /\ \E current_user \in ApiUsers, transaction_id \in TransactionIds :
          LET r == delete_transaction(transactions, transaction_id, current_user)
          IN  /\ request' = [op |-> "delete_transaction",
                             caller |-> current_user, id |-> transaction_id,
                             body |-> <<>>]
              /\ transactions' = r.table
              /\ reply' = r.reply
    /\ UNCHANGED <<subscriptions, progress>>
    /\ UNCHANGED apiOthers

NextTransactions ==
    \/ CreateTransaction
    \/ GetTransactions
    \/ GetTransaction
    \/ UpdateTransaction
    \/ DeleteTransaction

SpecTransactions == InitTransactions /\ [][NextTransactions]_vars


----------------------------------------------------------------------------
(* backend/app/api/v1/endpoints/subscriptions.py                           *)

\* The reply to a request whose handler ends with an exception that is not
\* an HTTPException: a KeyError on the body, an IntegrityError at commit.
ServerError == [status |-> 500, items |-> {}]

\* The ids of the rows of the users table.
UserIds == {1, 2}

\* The columns of the model Subscription the model keeps: hasattr is true
\* of each of them.
SubscriptionAttrs == {"id", "user_id", "name", "is_active"}

\* get_subscriptions: the active subscriptions of the caller.
get_subscriptions(table, current_user) ==
    [table |-> table,
     reply |-> Ok({t \in table.rows : t.user_id = current_user /\ t.is_active})]

\* create_subscription: subscription_data["name"] raises KeyError when the
\* body has no name.  The sequence gives the id; the insert fails when a row
\* already has it.
create_subscription(table, current_user, subscription_data) ==
    IF "name" \notin DOMAIN subscription_data
    THEN [table |-> table, reply |-> ServerError]
    ELSE LET db_subscription == [id |-> table.last_id + 1,
                                 user_id |-> current_user,
                                 name |-> subscription_data.name,
                                 is_active |-> TRUE]
         IN  IF \E t \in table.rows : t.id = db_subscription.id
             THEN [table |-> [table EXCEPT !.last_id = @ + 1],
                   reply |-> ServerError]
             ELSE [table |-> [rows |-> table.rows \cup {db_subscription},
                              last_id |-> table.last_id + 1],
                   reply |-> Ok({db_subscription})]

\* The rows the query of update and cancel selects.
OwnSubscription(table, subscription_id, current_user) ==
    {t \in table.rows : t.id = subscription_id /\ t.user_id = current_user}

\* update_subscription that sets no primary key and no owner.
update_subscription_protected(table, subscription_id, subscription_data,
                              current_user) ==
    LET found == OwnSubscription(table, subscription_id, current_user)
    IN  IF found = {} THEN [table |-> table, reply |-> NotFound]
        ELSE LET subscription == CHOOSE t \in found : TRUE
                 updated == SetAttrs(subscription, subscription_data,
                                     SubscriptionAttrs \ {"id", "user_id"})
             IN  [table |-> [table EXCEPT !.rows =
                                 (@ \ {subscription}) \cup {updated}],
                  reply |-> Ok({updated})]

\* update_subscription: every key of the body that names an attribute of
\* the row is set, the id and the user_id among them.  The commit fails
\* when the new id is that of another row or the new user_id is that of no
\* user.
update_subscription(table, subscription_id, subscription_data, current_user) ==
    LET found == OwnSubscription(table, subscription_id, current_user)
    IN  IF found = {} THEN [table |-> table, reply |-> NotFound]
        ELSE LET subscription == CHOOSE t \in found : TRUE
                 updated == SetAttrs(subscription, subscription_data,
                                     SubscriptionAttrs)
             IN  IF \/ \E t \in table.rows \ {subscription} : t.id = updated.id
                    \/ updated.user_id \notin UserIds
                 THEN [table |-> table, reply |-> ServerError]
                 ELSE [table |-> [table EXCEPT !.rows =
                                     (@ \ {subscription}) \cup {updated}],
                       reply |-> Ok({updated})]

\* cancel_subscription: the row stays, inactive.
cancel_subscription(table, subscription_id, current_user) ==
    LET found == OwnSubscription(table, subscription_id, current_user)
    IN  IF found = {} THEN [table |-> table, reply |-> NotFound]
        ELSE LET subscription == CHOOSE t \in found : TRUE
             IN  [table |-> [table EXCEPT !.rows =
                                 (@ \ {subscription})
                                 \cup {[subscription EXCEPT !.is_active = FALSE]}],
                  reply |-> Ok({})]

MaxSubscriptions == 2

\* Bodies of POST /subscriptions: with a name and without.
SubscriptionCreates == {[name |-> "Netflix"], [category |-> "streaming"]}

\* Bodies of PUT /subscriptions/{id}: a new name with a key the row has no
\* attribute for, another owner, an owner that is no user, another id.
SubscriptionUpdates ==
    {[name |-> "Netflix Premium", plan |-> "4K"],
     [user_id |-> 2],
     [user_id |-> 3],
     [id |-> 2]}

\* Subscription ids a request may name.
SubscriptionIds == 1..(MaxSubscriptions + 1)

InitSubscriptions == InitTransactions

CreateSubscription ==
    /\ subscriptions.last_id < MaxSubscriptions
    /\ \E current_user \in ApiUsers, body \in SubscriptionCreates :
          LET r == create_subscription(subscriptions, current_user, body)
          IN  /\ request' = [op |-> "create_subscription",
                             caller |-> current_user, id |-> 0, body |-> body]
              /\ subscriptions' = r.table
              /\ reply' = r.reply
    /\ UNCHANGED <<transactions, progress>>
    /\ UNCHANGED apiOthers

GetSubscriptions ==
    /\ \E current_user \in ApiUsers :
          LET r == get_subscriptions(subscriptions, current_user)
          IN  /\ request' = [op |-> "get_subscriptions",
                             caller |-> current_user, id |-> 0, body |-> <<>>]
              /\ subscriptions' = r.table
              /\ reply' = r.reply
    /\ UNCHANGED <<transactions, progress>>
    /\ UNCHANGED apiOthers

UpdateSubscription ==
    /\ \E current_user \in ApiUsers, subscription_id \in SubscriptionIds,
          body \in SubscriptionUpdates :
          LET r == update_subscription(subscriptions, subscription_id, body,
                                       current_user)
          IN  /\ request' = [op |-> "update_subscription",
                             caller |-> current_user, id |-> subscription_id,
                             body |-> body]
              /\ subscriptions' = r.table
              /\ reply' = r.reply
    /\ UNCHANGED <<transactions, progress>>
    /\ UNCHANGED apiOthers

CancelSubscription ==
    /\ \E current_user \in ApiUsers, subscription_id \in SubscriptionIds :
          LET r == cancel_subscription(subscriptions, subscription_id,
                                       current_user)
          IN  /\ request' = [op |-> "cancel_subscription",
                             caller |-> current_user, id |-> subscription_id,
                             body |-> <<>>]
              /\ subscriptions' = r.table
              /\ reply' = r.reply
    /\ UNCHANGED <<transactions, progress>>
    /\ UNCHANGED apiOthers

NextSubscriptions ==
    \/ CreateSubscription
    \/ GetSubscriptions
    \/ UpdateSubscription
    \/ CancelSubscription

SpecSubscriptions == InitSubscriptions /\ [][NextSubscriptions]_vars


----------------------------------------------------------------------------
(* backend/app/api/v1/endpoints/learning.py: start_course and              *)
(* update_course_progress.  Of a progress record the model keeps the id,   *)
(* the user, the course, progress_percentage, xp_earned and is_completed;  *)
(* the time spent, the quiz score and the timestamps, which no condition   *)
(* of the two handlers reads, are left out.                                *)

\* The rows of the courses table: no handler changes it.
courses == {[id |-> 1, xp_available |-> 50], [id |-> 2, xp_available |-> 120]}

\* db.query(Course).filter(Course.id == course_id).first()
CourseById(course_id) == {c \in courses : c.id = course_id}

\* db.query(UserCourseProgress).filter(user_id, course_id): the records of a
\* user for a course.
ProgressOf(table, current_user, course_id) ==
    {p \in table.rows : p.user_id = current_user /\ p.course_id = course_id}

\* .first() of a query that found rows: the one with the lowest id.
First(found) == CHOOSE p \in found : \A q \in found : p.id <= q.id

\* A reply that carries a message only.
Message(code) == [status |-> code, items |-> {}]

start_course(table, course_id, current_user) ==
    IF CourseById(course_id) = {} THEN [table |-> table, reply |-> NotFound]
    ELSE IF ProgressOf(table, current_user, course_id) = {}
    THEN [table |-> [rows |-> table.rows \cup
                         {[id |-> table.last_id + 1,
                           user_id |-> current_user,
                           course_id |-> course_id,
                           progress_percentage |-> 0,
                           xp_earned |-> 0,
                           is_completed |-> FALSE]},
                     last_id |-> table.last_id + 1],
          reply |-> Message(HTTP_200_OK)]
    ELSE [table |-> table, reply |-> Message(HTTP_200_OK)]

\* update_course_progress with completion following the percentage both
\* ways.
update_course_progress_tracking(table, course_id, progress_data, current_user) ==
    LET found == ProgressOf(table, current_user, course_id)
    IN  IF found = {} THEN [table |-> table, reply |-> NotFound]
        ELSE LET record == First(found)
                 percentage ==
                     IF "progress_percentage" \in DOMAIN progress_data
                     THEN progress_data.progress_percentage
                     ELSE record.progress_percentage
                 updated ==
                     [record EXCEPT
                         !.progress_percentage = percentage,
                         !.is_completed = percentage >= 100,
                         !.xp_earned =
                             IF percentage >= 100
                             THEN First(CourseById(course_id)).xp_available
                             ELSE 0]
             IN  [table |-> [table EXCEPT !.rows =
                                 (@ \ {record}) \cup {updated}],
                  reply |-> Message(HTTP_200_OK)]

update_course_progress(table, course_id, progress_data, current_user) ==
    LET found == ProgressOf(table, current_user, course_id)
    IN  IF found = {} THEN [table |-> table, reply |-> NotFound]
        ELSE LET record == First(found)
                 percentage ==
                     IF "progress_percentage" \in DOMAIN progress_data
                     THEN progress_data.progress_percentage
                     ELSE record.progress_percentage
                 completes == percentage >= 100 /\ ~record.is_completed
                 updated ==
                     [record EXCEPT
                         !.progress_percentage = percentage,
                         !.is_completed = IF completes THEN TRUE ELSE @,
                         !.xp_earned =
                             IF completes
                             THEN First(CourseById(course_id)).xp_available
                             ELSE @]
             IN  [table |-> [table EXCEPT !.rows =
                                 (@ \ {record}) \cup {updated}],
                  reply |-> Message(HTTP_200_OK)]

\* The progress records the table may hold.
MaxProgress == 2

\* Course ids a request may name: the courses and one that does not exist.
CourseIds == {1, 2, 3}

\* Bodies of PUT /courses/{id}/progress.
ProgressUpdates ==
    {[progress_percentage |-> 40], [progress_percentage |-> 100],
     [time_spent |-> 30]}

InitLearning == InitTransactions

StartCourse ==
    /\ \E current_user \in ApiUsers, course_id \in CourseIds :
          LET r == start_course(progress, course_id, current_user)
          IN  /\ r.table.last_id <= MaxProgress
              /\ request' = [op |-> "start_course", caller |-> current_user,
                             id |-> course_id, body |-> <<>>]
              /\ progress' = r.table
              /\ reply' = r.reply
    /\ UNCHANGED <<transactions, subscriptions>>
    /\ UNCHANGED apiOthers

UpdateCourseProgress ==
    /\ \E current_user \in ApiUsers, course_id \in CourseIds,
          body \in ProgressUpdates :
          LET r == update_course_progress(progress, course_id, body,
                                          current_user)
          IN  /\ request' = [op |-> "update_course_progress",
                             caller |-> current_user, id |-> course_id,
                             body |-> body]
              /\ progress' = r.table
              /\ reply' = r.reply
    /\ UNCHANGED <<transactions, subscriptions>>
    /\ UNCHANGED apiOthers

NextLearning == StartCourse \/ UpdateCourseProgress

SpecLearning == InitLearning /\ [][NextLearning]_vars


----------------------------------------------------------------------------
(* Two sign-up requests at once: utils/db.py create_user, src/auth.py      *)
(* AuthManager.register_user, backend POST /auth/register.  Each of the    *)
(* three looks the identifier up and then inserts; nothing in the code     *)
(* holds a lock or a transaction across the two.                           *)

SignupEntryPoints == {"create_user", "register_user", "register"}

\* Whether the users table refuses a second row with the identifier.  The
\* model User of the backend declares email and username unique; the
\* schemas of the SQLite table of create_user and of the Supabase table of
\* register_user are not in the repository, so both cases can be the build.
UniqueConstraint(entry) ==
    IF entry = "register" THEN {TRUE} ELSE BOOLEAN

\* The identifier both requests sign up with, and that of another user.
NewIdentifier == "alice"
OtherIdentifier == "bob"

\* The lookup: SELECT username (create_user), select("id").eq("email")
\* (register_user), the query by email or username (register).
existing_user(table, identifier) ==
    \E i \in 1..Len(table) : table[i] = identifier

\* What a request that found the identifier reports: False, or HTTP 400.
Refused(entry) ==
    IF entry = "register" THEN "400" ELSE "False"

\* What a request whose insert the table refused reports: create_user lets
\* the IntegrityError through, register_user catches it and returns False,
\* register ends with it (HTTP 500).
InsertFailed(entry) ==
    CASE entry = "create_user" -> "IntegrityError"
      [] entry = "register_user" -> "False"
      [] OTHER -> "500"

\* What a request whose insert went through reports: True, or the token.
Succeeded(entry) ==
    IF entry = "register" THEN "200" ELSE "True"

\* The insert and its commit.
insert_user(table, identifier, entry, constraint) ==
    IF constraint /\ existing_user(table, identifier)
    THEN [table |-> table, result |-> InsertFailed(entry)]
    ELSE [table |-> Append(table, identifier), result |-> Succeeded(entry)]

InitSignup ==
    /\ signup \in SignupEntryPoints
    /\ unique \in UniqueConstraint(signup)
    /\ signupPc = [r \in Requests |-> "select"]
    /\ signupSaw = [r \in Requests |-> FALSE]
    /\ signupResult = [r \in Requests |-> "none"]
    /\ signupUsers \in {<<>>, <<OtherIdentifier>>, <<NewIdentifier>>}
    /\ SessionIdle
    /\ ScannerIdle
    /\ ApiIdle
    /\ raised = ""
    /\ ExtractorIdle
    /\ ClassifierIdle
    /\ ReceiptIdle
    /\ PercentIdle
    /\ RegisterIdle

signupOthers ==
    <<raised, extractVars, classifyVars, receiptVars, percentVars, registerVars,
      sessionVars, scannerVars, apiVars>>

\* A request looks the identifier up and, finding it, refuses.
SignupSelect(r) ==
    /\ signupPc[r] = "select"
    /\ LET found == existing_user(signupUsers, NewIdentifier)
       IN  /\ signupSaw' = [signupSaw EXCEPT ![r] = found]
           /\ signupPc' = [signupPc EXCEPT ![r] =
                              IF found THEN "done" ELSE "insert"]
           /\ signupResult' = [signupResult EXCEPT ![r] =
                                  IF found THEN Refused(signup) ELSE @]
    /\ UNCHANGED <<signup, unique, signupUsers>>
    /\ UNCHANGED signupOthers

\* A request that did not find the identifier inserts it.
SignupInsert(r) ==
    /\ signupPc[r] = "insert"
    /\ LET done == insert_user(signupUsers, NewIdentifier, signup, unique)
       IN  /\ signupUsers' = done.table
           /\ signupResult' = [signupResult EXCEPT ![r] = done.result]
    /\ signupPc' = [signupPc EXCEPT ![r] = "done"]
    /\ UNCHANGED <<signup, unique, signupSaw>>
    /\ UNCHANGED signupOthers

NextSignup ==
    \/ \E r \in Requests : SignupSelect(r)
    \/ \E r \in Requests : SignupInsert(r)

SpecSignup == InitSignup /\ [][NextSignup]_vars


----------------------------------------------------------------------------
(* Properties of the field extractor, stated for SpecExtract               *)

AmountRun == amount.tag # "NotRun"
DateRun == date.tag # "NotRun"

\* The decimal a float stands for, as a record.
Decimal(num, den) == [tag |-> "float", num |-> num, den |-> den]

CalendarDate(y, m, d) == [tag |-> "date", y |-> y, m |-> m, d |-> d]

\* C1: for every input text, extract_amount returns a number that is >= 0.0
\* and never raises an exception.
C1_AmountNonNegative ==
    AmountRun => /\ amount.tag = "float"
                 /\ amount.num >= 0
                 /\ amount.den >= 1

\* A text with a minus sign and grouping commas, extracted to 1234.56.
C1_Witness == text = "-1,234.56" /\ amount = Decimal(123456, 100)

\* Texts that hold one currency-marked, comma-grouped amount followed by a
\* date token.
AmountThenDateTexts ==
    {"Total: Rs. 1,234.56 on 15/03/2024", "Rs. 1,234.56 03/04/2024",
     "Rs. 1,234.56-03/15/2024"}

\* C2: extract_amount applied to a text that contains one currency-marked,
\* comma-grouped monetary amount followed by a date token, such as
\* "Total: Rs. 1,234.56 on 15/03/2024", returns that amount (1234.56).
C2_AmountBeforeDate ==
    (AmountRun /\ text \in AmountThenDateTexts) => amount = Decimal(123456, 100)

\* The value of the numeral s (digits, grouping commas, at most one point)
\* read digit by digit: whole is the value so far, den the power of ten of the
\* fraction digits read (0 before the point).
RECURSIVE NumeralValue(_, _, _, _)
NumeralValue(s, i, whole, den) ==
    IF i > Len(s)
    THEN Normalise(whole, IF den = 0 THEN 1 ELSE den)
    ELSE IF Ch(s, i) = "." THEN NumeralValue(s, i + 1, whole, 1)
    ELSE IF Ch(s, i) = "," THEN NumeralValue(s, i + 1, whole, den)
    ELSE NumeralValue(s, i + 1, 10 * whole + DigitVal(Ch(s, i)), 10 * den)

\* The span of the amount match that starts furthest into the text.
LastAmountSpan(t) ==
    LET spans == Range(AmountSpans(t, 1))
    IN  CHOOSE sp \in spans : \A other \in spans : other.from <= sp.from

\* C3: when the text contains several amount-like matches, extract_amount
\* returns the value of the last match in text order, with grouping commas
\* removed; "Item1 $5.00 Item2 $10.00 Total $15.00" gives 15.00.
C3_LastMatchWins ==
    /\ (AmountRun /\ Len(AmountSpans(text, 1)) >= 2) =>
          LET sp == LastAmountSpan(text)
          IN  amount = NumeralValue(SubSeq(text, sp.from, sp.to), 1, 0, 0)
    /\ (AmountRun /\ text = "Item1 $5.00 Item2 $10.00 Total $15.00") =>
          amount = Decimal(15, 1)
    /\ (AmountRun /\ text = "$5.00 1,234.56") => amount = Decimal(123456, 100)

C3_Witness ==
    /\ text = "Item1 $5.00 Item2 $10.00 Total $15.00"
    /\ Len(AmountSpans(text, 1)) = 5
    /\ amount = Decimal(15, 1)

HasDigit(t) == \E i \in 1..Len(t) : IsDigit(Ch(t, i))

\* C4: for every text that contains no numeric substring (including the empty
\* text), extract_amount returns exactly 0.0.
C4_NoNumberGivesZero == (AmountRun /\ ~HasDigit(text)) => amount = Zero

C4_Witness == text = "no numbers here" /\ amount = Zero

\* y-m-d is a day of the calendar.
IsCalendarDay(y, m, d) ==
    /\ y \in 1..9999
    /\ m \in 1..12
    /\ d >= 1
    /\ d <= (CASE m \in {1, 3, 5, 7, 8, 10, 12} -> 31
               [] m \in {4, 6, 9, 11} -> 30
               [] OTHER -> IF y % 400 = 0 \/ (y % 4 = 0 /\ y % 100 # 0)
                           THEN 29 ELSE 28)

\* C5: for every input text, extract_date returns either a valid calendar date
\* or absent (None); a date-like token that matches the pattern but is not a
\* real date never causes an exception.
C5_DateValidOrAbsent ==
    DateRun => \/ date = None
               \/ date.tag = "date" /\ IsCalendarDay(date.y, date.m, date.d)

\* 31 February matches the pattern and is no date: the result is absent.
C5_Witness ==
    /\ text = "31/02/2024"
    /\ DateMatches(text) = <<"31/02/2024">>
    /\ date = None

\* The fields of a date-like token a<sep1>b<sep2>c (a and b have one or two
\* digits): the numbers a and b, the digits of c, the two separators.
TokenFields(tok) ==
    LET s1 == IF IsDateSep(Ch(tok, 2)) THEN 2 ELSE 3
        s2 == IF IsDateSep(Ch(tok, s1 + 2)) THEN s1 + 2 ELSE s1 + 3
    IN  [a |-> DigitsValue(SubSeq(tok, 1, s1 - 1)),
         b |-> DigitsValue(SubSeq(tok, s1 + 1, s2 - 1)),
         c |-> DigitsValue(SubSeq(tok, s2 + 1, Len(tok))),
         yearDigits |-> Len(tok) - s2,
         seps |-> Ch(tok, s1) \o Ch(tok, s2)]

\* The year a token names under a format with a 4-digit (%Y) or 2-digit (%y)
\* year.
TokenYear(f) ==
    IF f.yearDigits = 4 THEN f.c
    ELSE IF f.c >= 69 THEN 1900 + f.c ELSE 2000 + f.c

\* The token parses under one of the day-first formats (d/m/Y, d-m-Y, d/m/y).
FieldsParseDayFirst(f) ==
    /\ \/ f.seps \in {"//", "--"} /\ f.yearDigits = 4
       \/ f.seps = "//" /\ f.yearDigits = 2
    /\ IsCalendarDay(TokenYear(f), f.b, f.a)

\* The token parses under the month-first format (m/d/Y).
FieldsParseMonthFirst(f) ==
    /\ f.seps = "//" /\ f.yearDigits = 4
    /\ IsCalendarDay(TokenYear(f), f.a, f.b)

ParsesDayFirst(tok) == FieldsParseDayFirst(TokenFields(tok))
ParsesMonthFirst(tok) == FieldsParseMonthFirst(TokenFields(tok))

DayFirstReading(tok) ==
    LET f == TokenFields(tok) IN CalendarDate(TokenYear(f), f.b, f.a)
MonthFirstReading(tok) ==
    LET f == TokenFields(tok) IN CalendarDate(TokenYear(f), f.a, f.b)

\* C6: the formats are tried day-first before month-first and the first that
\* parses wins: a token that parses day-first is read day-first even when it
\* also parses month-first (03/04/2024 is 3 April), a token that parses only
\* month-first is read month-first (03/15/2024 is 15 March), and
\* "15/03/2024" yields 15 March 2024.
C6_DayFirstBeforeMonthFirst ==
    /\ DateRun =>
          LET toks == DateMatches(text)
          IN  Len(toks) = 1 =>
                /\ ParsesDayFirst(toks[1]) => date = DayFirstReading(toks[1])
                /\ (~ParsesDayFirst(toks[1]) /\ ParsesMonthFirst(toks[1])) =>
                      date = MonthFirstReading(toks[1])
    /\ (DateRun /\ text = "03/04/2024") => date = CalendarDate(2024, 4, 3)
    /\ (DateRun /\ text = "03/15/2024") => date = CalendarDate(2024, 3, 15)
    /\ (DateRun /\ text = "Total: Rs. 1,234.56 on 15/03/2024") =>
          date = CalendarDate(2024, 3, 15)

\* A token valid under both readings, read day-first.
C6_Witness ==
    /\ text = "03/04/2024"
    /\ ParsesDayFirst("03/04/2024") /\ ParsesMonthFirst("03/04/2024")
    /\ date = CalendarDate(2024, 4, 3)

\* The indexes of the date-like tokens toks that parse under some format.
ParsingTokens(toks) ==
    {n \in 1..Len(toks) : ParsesDayFirst(toks[n]) \/ ParsesMonthFirst(toks[n])}

\* C7: with several date-like tokens, extract_date returns the date of the
\* first token in text order that parses under any format (a later token is
\* used only when every earlier one fails every format), and absent only when
\* no token parses.
C7_FirstParsingTokenWins ==
    DateRun =>
        LET toks == DateMatches(text)
            parsing == ParsingTokens(toks)
        IN  /\ (date = None) <=> (parsing = {})
            /\ parsing # {} =>
                  LET n == CHOOSE k \in parsing : \A j \in parsing : k <= j
                  IN  date = IF ParsesDayFirst(toks[n])
                             THEN DayFirstReading(toks[n])
                             ELSE MonthFirstReading(toks[n])

\* The first token is no date, the second one is used.
C7_Witness ==
    /\ text = "31/02/2024 03/15/2024"
    /\ DateMatches(text) = <<"31/02/2024", "03/15/2024">>
    /\ date = CalendarDate(2024, 3, 15)


----------------------------------------------------------------------------
(* Properties of the classifiers, stated for SpecClassify                  *)

\* C9: whatever the description, the amount and the answer of the AI service
\* (a label outside the vocabulary included), categorize_transaction and
\* _simple_categorization return a member of TRANSACTION_CATEGORIES and
\* ExpenseTracker.predict_category returns a member of
\* ExpenseTracker.categories.
C9_LabelInVocabulary ==
    /\ classifier \in {"categorize_transaction", "_simple_categorization"} =>
          label \in Range(TRANSACTION_CATEGORIES)
    /\ classifier = "predict_category" => label \in Range(categories)

\* The AI service answered with a label outside the vocabulary.
C9_Witness ==
    /\ classifier = "categorize_transaction"
    /\ aiOutcome = "answer"
    /\ aiContent = "Groceries"
    /\ label = "Other"

\* The keyword tests of _simple_categorization, in the order the function
\* makes them.
SimpleRules ==
    << <<"Food & Dining", {"restaurant", "food", "dining", "cafe", "coffee",
                           "pizza", "burger"}>>,
       <<"Transportation", {"uber", "lyft", "taxi", "gas", "fuel", "parking",
                            "metro", "bus"}>>,
       <<"Shopping", {"amazon", "walmart", "target", "shop", "store", "mall"}>>,
       <<"Entertainment", {"netflix", "spotify", "movie", "game", "concert",
                           "theater"}>>,
       <<"Healthcare", {"doctor", "hospital", "pharmacy", "medical", "health"}>>,
       <<"Utilities", {"electric", "water", "gas", "internet", "phone",
                       "utility"}>>,
       <<"Housing", {"rent", "mortgage", "home", "apartment"}>>,
       <<"Salary", {"salary", "payroll", "income", "deposit"}>> >>

\* The keyword lists of ExpenseTracker.predict_category as sets.
TrackerRules ==
    [n \in 1..Len(category_keywords) |->
        <<category_keywords[n][1], Range(category_keywords[n][2])>>]

\* The rules of a table with a keyword occurring in desc, compared without
\* regard to case.
MatchingRules(rules, desc) ==
    LET lowered == Lower(desc)
    IN  {n \in 1..Len(rules) : \E word \in rules[n][2] : Contains(lowered, word)}

\* The category of the earliest matching rule, "" when none matches.
EarliestCategory(rules, desc) ==
    LET matching == MatchingRules(rules, desc)
    IN  IF matching = {} THEN ""
        ELSE rules[CHOOSE n \in matching : \A k \in matching : n <= k][1]

\* The label is rule-based: it comes from the keyword rules of the backend.
RuleBasedBackend ==
    \/ classifier = "_simple_categorization"
    \/ classifier = "categorize_transaction" /\ aiOutcome # "answer"

\* C10: rule-based classification scans the lowercased description category by
\* category in one fixed priority order and returns the first category with a
\* keyword occurring as a substring: "gas" (Transportation and Utilities)
\* gets the earlier category, matching ignores case, and "Starbucks Coffee"
\* gives "Food & Dining".
C10_FirstCategoryInPriorityOrder ==
    /\ RuleBasedBackend =>
          LET earliest == EarliestCategory(SimpleRules, description)
          IN  earliest # "" => label = earliest
    /\ classifier = "predict_category" =>
          LET earliest == EarliestCategory(TrackerRules, description)
          IN  earliest # "" => label = earliest
    /\ (RuleBasedBackend \/ classifier = "predict_category") =>
          /\ description \in {"gas", "GAS Station"} => label = "Transportation"
          /\ description = "Starbucks Coffee" => label = "Food & Dining"

\* "gas" is a keyword of Transportation and of Utilities.
C10_Witness ==
    /\ classifier = "_simple_categorization"
    /\ description = "GAS Station"
    /\ Cardinality(MatchingRules(SimpleRules, description)) = 2
    /\ label = "Transportation"

\* The description of the scenario: none of the keywords of
\* _simple_categorization occurs in it, "payment" (an Income keyword of
\* ExpenseTracker.predict_category) does.
UnknownVendorPayment == "XYZ123 Unknown Vendor Payment"

\* The AI service is disabled for the call that was made: no key is configured
\* (categorize_transaction), or the classifier has no AI service at all.
AiDisabled == OPENAI_API_KEY = ""

\* C11 as stated: with the AI service disabled, every category classifier
\* returns "Other" for "XYZ123 Unknown Vendor Payment".
C11_OtherInEveryClassifier ==
    (classifier # "none" /\ AiDisabled /\ description = UnknownVendorPayment)
        => label = "Other"

\* C11, amended: with the AI service disabled, categorize_transaction and
\* _simple_categorization return "Other" for "XYZ123 Unknown Vendor Payment";
\* ExpenseTracker.predict_category returns "Income" for it whatever the
\* amount, because "payment" is one of its Income keywords.
C11_OtherInBackendIncomeInTracker ==
    (AiDisabled /\ description = UnknownVendorPayment) =>
        /\ classifier \in {"categorize_transaction", "_simple_categorization"}
              => label = "Other"
        /\ classifier = "predict_category" => label = "Income"

\* categorize_transaction classified the description without a key.
C11_Witness ==
    /\ classifier = "categorize_transaction"
    /\ AiDisabled
    /\ description = UnknownVendorPayment
    /\ label = "Other"

\* The label the keyword rules of the backend alone determine: the category of
\* the earliest matching rule, "Other" when no rule matches.
RuleLabel(desc) ==
    LET earliest == EarliestCategory(SimpleRules, desc)
    IN  IF earliest = "" THEN "Other" ELSE earliest

\* C12: when OPENAI_API_KEY is unset, categorize_transaction makes no call to
\* the AI service, raises nothing, and returns the label the keyword rules
\* alone determine, for every description.
C12_NoKeyNoAiCall ==
    (classifier = "categorize_transaction" /\ OPENAI_API_KEY = "") =>
        /\ aiCalls = 0
        /\ aiOutcome = "none"
        /\ raised = ""
        /\ label = RuleLabel(description)

\* Without a key a description with a keyword got the label of its rule.
C12_Witness ==
    /\ classifier = "categorize_transaction"
    /\ OPENAI_API_KEY = ""
    /\ description = "Starbucks Coffee"
    /\ label = "Food & Dining"
    /\ aiCalls = 0

\* C13: when a key is configured and the call to the AI service raises,
\* categorize_transaction returns the rule-based label ("Other" when no rule
\* matches) and nothing is raised to the caller.
C13_AiFailureAbsorbed ==
    (classifier = "categorize_transaction" /\ OPENAI_API_KEY # ""
        /\ aiOutcome = "raise") =>
        /\ raised = ""
        /\ label = RuleLabel(description)
        /\ label \in Range(TRANSACTION_CATEGORIES)

\* The AI service was called, raised, and no rule matched the description.
C13_Witness ==
    /\ classifier = "categorize_transaction"
    /\ OPENAI_API_KEY # ""
    /\ aiCalls = 1
    /\ aiOutcome = "raise"
    /\ raised = ""
    /\ description = "qwe"
    /\ label = "Other"

\* A keyword rule of the backend matches the description.
RuleMatches(desc) == MatchingRules(SimpleRules, desc) # {}

----------------------------------------------------------------------------
(* Properties of the receipt pipeline, stated for SpecReceipt              *)

\* The call returned: there is a record.
Returned == pc = "done"

\* The lines of the recognized text (the pieces between its newlines) that
\* are non-empty after trimming, by position.
NonBlankLines(text_) ==
    {i \in 1..Len(split(text_)) : Strip(split(text_)[i]) # ""}

\* C14: in the record returned, vendor is the first line of the recognized
\* text that is non-empty after trimming, trimmed; it is "Unknown Vendor" when
\* the text has no such line; it is never the empty string.
C14_VendorFirstNonBlankLine ==
    \A n \in 1..Len(records) :
        LET nonblank == NonBlankLines(ocr.text)
        IN  /\ records[n].vendor # ""
            /\ nonblank = {} => records[n].vendor = "Unknown Vendor"
            /\ nonblank # {} =>
                  LET first == CHOOSE i \in nonblank : \A k \in nonblank : i <= k
                  IN  records[n].vendor = Strip(split(ocr.text)[first])

\* The first two lines of the text are blank, the third has spaces around
\* the name.
C14_Witness ==
    /\ Returned
    /\ ocr = OcrReturns(" \n\n  Big Bazaar  \nINR 1,050.5")
    /\ records[1].vendor = "Big Bazaar"

\* C15 as stated: nothing is raised to the caller of extract_receipt_data;
\* when the OCR call raises, the recognized text is taken to be empty and a
\* record is still returned.
C15_OcrFailureCaught ==
    /\ raised = ""
    /\ pc # "raised"
    /\ (ocr.outcome = "raise" /\ Returned) =>
          /\ Len(records) = 1
          /\ records[1].raw_text = ""

\* C16: when the OCR engine returns the empty text, the record returned is
\* vendor "Unknown Vendor", amount 0.0, date None, category "Other", raw_text
\* "", and nothing is raised.
C16_EmptyTextAllDefaults ==
    ocr = OcrReturns("") =>
        /\ raised = ""
        /\ \A n \in 1..Len(records) :
              records[n] = ReceiptRecord("Unknown Vendor", Zero, None, "Other", "")

\* The engine returned "" and the record was returned.
C16_Witness ==
    /\ Returned
    /\ ocr = OcrReturns("")
    /\ Len(records) = 1
    /\ records[1].vendor = "Unknown Vendor"

\* The stages of extract_receipt_data in the order of its body.
StageOrder == <<"recognize", "vendor", "amount", "date", "category">>

\* The invocation is over: it returned or it raised.
Ended == pc \in {"done", "raised"}

\* C17 as stated: at any moment the stages run so far are the first stages of
\* the order recognize, vendor, amount, date, category, each once; every
\* invocation that is over has run all of them and has returned exactly one
\* record, whose raw_text is the recognized text and whose amount, date and
\* category are computed from that text.
C17_StagesOnceInOrderOneRecord ==
    /\ Len(stages) <= Len(StageOrder)
    /\ stages = SubSeq(StageOrder, 1, Len(stages))
    /\ Len(records) <= 1
    /\ Ended =>
          /\ stages = StageOrder
          /\ Len(records) = 1
          /\ DOMAIN records[1] = {"vendor", "amount", "date", "category", "raw_text"}
          /\ records[1].raw_text = ocr.text
          /\ records[1].amount = extract_amount(ocr.text)
          /\ records[1].date = extract_date(ocr.text)
          /\ records[1].category \in categorizer_predict_category(ocr.text)

----------------------------------------------------------------------------
(* calculate_percentage_change, stated for SpecPercent                     *)

\* C18: calculate_percentage_change(old, new) is (new - old) / old * 100 for
\* every old # 0 (20.0 for 100 and 120), and is 0, with nothing raised, when
\* old = 0.
C18_PercentageChange ==
    change.tag # "NotRun" =>
        /\ old_value # 0 =>
              /\ change.tag = "float"
              /\ change.den > 0
              /\ change.num * old_value = (new_value - old_value) * 100 * change.den
        /\ old_value = 0 => change.tag = "int" /\ change.num = 0
        /\ (old_value = 100 /\ new_value = 120) =>
              change.num = 20 /\ change.den = 1

\* The old value was 0 and the new one was not.
C18_Witness ==
    /\ old_value = 0
    /\ new_value = 120
    /\ change = IntZero

----------------------------------------------------------------------------
(* POST /auth/register, stated for SpecRegister                            *)

\* The users with the email or the username of a request.
Registered(us, data) ==
    {u \in us : u.email = data.email \/ u.username = data.username}

\* C19: a request whose email and username are both unregistered adds exactly
\* one user, with that email and username, and is answered with a bearer
\* token whose subject is that email; a request whose email or username is
\* registered is answered with 400 and leaves the users as they were.
C19_RegisterOnceOr400 ==
    [][IF Registered(users, register_data') = {}
       THEN /\ users \subseteq users'
            /\ Cardinality(users') = Cardinality(users) + 1
            /\ \E u \in users' \ users :
                  /\ u.email = register_data'.email
                  /\ u.username = register_data'.username
            /\ response'.status = 200
            /\ response'.token_type = "bearer"
            /\ response'.access_token.sub = register_data'.email
       ELSE /\ users' = users
            /\ response'.status = 400]_vars

\* A request with a new email and a registered username was refused.
C19_Witness ==
    /\ response.status = 400
    /\ \E u \in users : u.username = register_data.username
    /\ \A u \in users : u.email # register_data.email
    /\ Cardinality(users) = 2

----------------------------------------------------------------------------
(* More properties of the classifiers, stated for SpecClassify             *)

\* C21: in ExpenseTracker.predict_category a keyword match decides whatever
\* the sign of the amount; when no keyword matches, a positive amount gives
\* "Income", and a non-positive amount gives "Bills & Utilities" if the
\* description contains "subscription" or "monthly" (in any case) and "Other"
\* otherwise.
C21_KeywordThenAmountSign ==
    classifier = "predict_category" =>
        LET earliest == EarliestCategory(TrackerRules, description)
            lowered == Lower(description)
        IN  /\ earliest # "" => label = earliest
            /\ (earliest = "" /\ txAmount > 0) => label = "Income"
            /\ (earliest = "" /\ txAmount <= 0) =>
                  label = IF Contains(lowered, "subscription")
                             \/ Contains(lowered, "monthly")
                          THEN "Bills & Utilities" ELSE "Other"

\* No keyword matched, the amount was an expense and the description has
\* both words, capitalised.
C21_Witness ==
    /\ classifier = "predict_category"
    /\ description = "Monthly Subscription"
    /\ MatchingRules(TrackerRules, description) = {}
    /\ txAmount < 0
    /\ label = "Bills & Utilities"

\* Descriptions no keyword rule of the backend matches.
UnmatchedDescriptions == {"qwe", UnknownVendorPayment}

\* The confidences categorize_transaction returns on the default path: no
\* rule matches and the label is the default "Other" of the keyword rules.
DefaultConfidences ==
    {categorize_transaction(d, key, ai).confidence :
        d \in UnmatchedDescriptions,
        key \in ApiKeys,
        ai \in {AiRaises}}

\* The label came from a keyword rule that matched the description.
LabelFromRuleMatch ==
    /\ classifier = "categorize_transaction"
    /\ aiOutcome # "answer"
    /\ RuleMatches(description)

\* C22 as stated: the confidence returned with a label that comes from a
\* keyword-rule match is strictly higher than every confidence returned on
\* the default path (no rule matched, label "Other").
C22_RuleMatchHigherConfidence ==
    LabelFromRuleMatch => \A c \in DefaultConfidences : confidence > c

\* C22, amended: the confidence of categorize_transaction depends only on
\* the path taken, not on whether a rule matched: 0.9 when the AI service
\* answered (also when its answer was replaced by "Other"), 0.7 when no key is
\* configured, 0.5 when the AI call raised; on the last two paths a rule match
\* and the default "Other" get the same confidence.
C22_ConfidenceByPath ==
    classifier = "categorize_transaction" =>
        /\ aiOutcome = "answer" => confidence = 9
        /\ OPENAI_API_KEY = "" => confidence = 7
        /\ aiOutcome = "raise" => confidence = 5
        /\ aiOutcome # "answer" =>
              \A d \in UnmatchedDescriptions :
                  categorize_transaction(d, OPENAI_API_KEY,
                      [outcome |-> aiOutcome, content |-> aiContent]).confidence
                      = confidence

\* Without a key a rule match got 0.7, which is what the default gets.
C22_Witness ==
    /\ LabelFromRuleMatch
    /\ OPENAI_API_KEY = ""
    /\ description = "Starbucks Coffee"
    /\ label = "Food & Dining"
    /\ confidence = 7
    /\ 7 \in DefaultConfidences

----------------------------------------------------------------------------
(* The receipt scanner page, stated for SpecScanner                        *)

\* C23: the transactions table changes only in a run of the page in which
\* the save form was submitted; that run adds exactly one row, after the rows
\* already there, whose username is the user of the session and whose vendor,
\* date, amount, category and note are those of the form; every other run,
\* the extraction of the record included, leaves the table as it was.
C23_OneRowPerSubmission ==
    [][IF scan'.submitted
       THEN /\ Len(sqlite_transactions') = Len(sqlite_transactions) + 1
            /\ SubSeq(sqlite_transactions', 1, Len(sqlite_transactions))
                  = sqlite_transactions
            /\ sqlite_transactions'[Len(sqlite_transactions')] =
                  [username |-> scan'.user, vendor |-> scan'.vendor,
                   date |-> strftime(scan'.date), amount |-> scan'.amount,
                   category |-> scan'.category, note |-> scan'.note]
       ELSE sqlite_transactions' = sqlite_transactions]_vars

\* A second row was saved with the vendor the user typed.
C23_Witness ==
    /\ Len(sqlite_transactions) = 2
    /\ scan.submitted
    /\ scan.vendor = "Corrected Vendor"
    /\ sqlite_transactions[2].vendor = "Corrected Vendor"
    /\ sqlite_transactions[2].username = scan.user
    /\ sqlite_transactions[2].date = "2024-01-12"

----------------------------------------------------------------------------
(* The Streamlit session, stated for SpecSession                           *)

\* C24: whenever authenticated is True, user_id and user_name are those of
\* the user record whose email and password hash matched at the last
\* successful authenticate_user; a call of authenticate_user that fails
\* changes no key of the session.
C24_SessionHoldsMatchedUser ==
    /\ [](session["authenticated"] = "True" =>
            /\ matched \in Range(supabase_users)
            /\ session["user_id"] = matched.id
            /\ session["user_name"] = matched.full_name)
    /\ [][lastOp' = "authenticate_user: False" => session' = session]_vars

\* A wrong password for the second user while the first one is logged in.
C24_Witness ==
    /\ lastOp = "authenticate_user: False"
    /\ session["authenticated"] = "True"
    /\ session["user_id"] = "1"
    /\ matched.email = "asha@example.com"

\* The keys authenticate_user sets for a user.
UserKeys == {"user_id", "user_name", "user_email", "user_age", "income_bracket"}

\* C25 as stated: after a logout, by the sidebar or by AuthManager.logout,
\* none of the keys authenticate_user set for the user still holds a value:
\* each is absent or None.
C25_LogoutClearsUserData ==
    lastOp \in {"sidebar_logout", "logout"} =>
        \A k \in UserKeys : session[k] \in {Missing, "None"}

\* C26: a run of the application in which authenticated is false shows the
\* login page and nothing else: no sidebar, no feature page, no welcome
\* screen.
C26_LoginPageOnlyWhenUnauthenticated ==
    (lastOp = "run" /\ session["authenticated"] # "True") =>
        /\ rendered = {"login"}
        /\ rendered \cap {"sidebar", "feature", "welcome"} = {}

\* The run that follows a call of AuthManager.logout by a logged-in user.
C26_Witness ==
    /\ lastOp = "run"
    /\ session["authenticated"] = "False"
    /\ matched # NoUser
    /\ session["user_email"] = Missing
    /\ rendered = {"login"}

----------------------------------------------------------------------------
(* The transactions of the backend, stated for SpecTransactions            *)

\* The rows of a table that belong to a user, and those that do not.
RowsOf(table, user) == {t \in table.rows : t.user_id = user}
RowsOfOthers(table, user) == {t \in table.rows : t.user_id # user}

\* C27: every call of the transactions API leaves the rows of the users
\* other than the caller as they were and returns only rows of the caller;
\* listing returns the caller's rows; reading, updating or deleting an id
\* that does not exist or belongs to another user is answered with 404 and
\* changes no row; no call changes the user_id of a row.
C27_TransactionsIsolatedPerUser ==
    [][LET c == request'.caller
       IN  /\ RowsOfOthers(transactions', c) = RowsOfOthers(transactions, c)
           /\ \A t \in reply'.items : t.user_id = c
           /\ (request'.op = "get_transactions" /\ request'.body.category = "")
                 => reply'.items = RowsOf(transactions, c)
           /\ (/\ request'.op \in {"get_transaction", "update_transaction",
                                   "delete_transaction"}
               /\ ~\E t \in RowsOf(transactions, c) : t.id = request'.id)
                 => /\ reply'.status = HTTP_404_NOT_FOUND
                    /\ transactions' = transactions
           /\ \A t \in transactions.rows, u \in transactions'.rows :
                 t.id = u.id => t.user_id = u.user_id]_vars

\* User 2 sent an update, with a user_id in the body, for a transaction of
\* user 1: it was answered with 404 and the transaction is as it was.
C27_Witness ==
    /\ request.op = "update_transaction"
    /\ request.caller = 2
    /\ "user_id" \in DOMAIN request.body
    /\ \E t \in transactions.rows : t.id = request.id /\ t.user_id = 1
    /\ reply.status = HTTP_404_NOT_FOUND

----------------------------------------------------------------------------
(* The subscriptions of the backend, stated for SpecSubscriptions          *)

\* C28 as stated: update_subscription, whatever the body, leaves every
\* subscription with the id and the user_id it had; for a subscription the
\* caller does not own it answers 404 and changes nothing.
C28_UpdateKeepsIdAndOwner ==
    [][request'.op = "update_subscription" =>
          /\ \A t \in subscriptions.rows :
                \E u \in subscriptions'.rows :
                    u.id = t.id /\ u.user_id = t.user_id
          /\ (~\E t \in RowsOf(subscriptions, request'.caller) :
                   t.id = request'.id)
                => /\ reply'.status = HTTP_404_NOT_FOUND
                   /\ subscriptions' = subscriptions]_vars

----------------------------------------------------------------------------
(* Course progress, stated for SpecLearning                                *)

\* The XP of the course of a progress record.
XpAvailable(p) == First(CourseById(p.course_id)).xp_available

\* C29: a user has at most one progress record per course; a record that is
\* not completed has earned 0 XP and is below 100 percent, a completed one
\* has earned the XP of its course.  No call takes a record away, makes a
\* completed record uncompleted or changes the XP it earned; XP changes only
\* in the update that completes the record, which leaves it at 100 percent
\* or more; start_course on an existing record changes none of its
\* percentage, XP and completion.
C29_CompletionIsFinal ==
    /\ [](\A p \in progress.rows :
             /\ \A q \in progress.rows :
                   (q.user_id = p.user_id /\ q.course_id = p.course_id) => q = p
             /\ ~p.is_completed =>
                   (p.xp_earned = 0 /\ p.progress_percentage < 100)
             /\ p.is_completed => p.xp_earned = XpAvailable(p))
    /\ [][\A p \in progress.rows :
             \E q \in progress'.rows :
                /\ q.id = p.id
                /\ p.is_completed =>
                      (q.is_completed /\ q.xp_earned = p.xp_earned)
                /\ q.xp_earned # p.xp_earned =>
                      /\ request'.op = "update_course_progress"
                      /\ ~p.is_completed /\ q.is_completed
                      /\ q.progress_percentage >= 100
                /\ request'.op = "start_course" =>
                      /\ q.progress_percentage = p.progress_percentage
                      /\ q.xp_earned = p.xp_earned
                      /\ q.is_completed = p.is_completed]_vars

\* A completed course whose percentage was then lowered and which was
\* started again: it is still completed, with the XP of the course.
C29_Witness ==
    /\ request.op = "start_course"
    /\ request.caller = 1
    /\ request.id = 2
    /\ \E p \in progress.rows :
          /\ p.user_id = 1
          /\ p.course_id = 2
          /\ p.is_completed
          /\ p.progress_percentage = 40
          /\ p.xp_earned = 120

----------------------------------------------------------------------------
(* Concurrent sign-up, stated for SpecSignup                               *)

\* C30 as stated: however two sign-up requests for one identifier
\* interleave, the users table holds at most one record with the
\* identifier and at most one of the requests reports success.
C30_AtMostOneSignup ==
    /\ Cardinality({i \in 1..Len(signupUsers) :
                       signupUsers[i] = NewIdentifier}) <= 1
    /\ Cardinality({r \in Requests :
                       signupResult[r] = Succeeded(signup)}) <= 1


=============================================================================
